---- MODULE Spec2Model ----
(* One Sip: the reservation workflow.                                       *)
(*   Reservation Intake   src/public/js/reservations.js (inline-message     *)
(*                        variant) and src/unnamed/part_002 (success-UI      *)
(*                        variant)                                           *)
(*   Admin Console        src/functions/index.js, lines 300-696              *)
(*   Notification Trigger src/functions/index.js, lines 1-297                *)
(* The document database, the identity provider and the email provider are  *)
(* external: a call to one of them is a step whose outcome is chosen         *)
(* nondeterministically among the outcomes the platform can produce.         *)
EXTENDS Integers, Sequences, FiniteSets, TLC

(* ------------------------------------------------------------------------ *)
(* Bounds of the model                                                       *)
(* ------------------------------------------------------------------------ *)
MaxRes == 2        \* reservation documents ever created in one behaviour
MaxClock == 3      \* committed writes (server timestamps handed out)
MaxInFlight == 1   \* Admin Console writes issued and not yet settled
MaxDeliveries == 2 \* times the platform delivers one creation event
MaxListeners == 2  \* subscriptions one Admin Console page opens
MaxNotifications == 2 \* auth-state changes queued for the service's listener
MaxReads == 1      \* listener invocations awaiting their profile read

(* ------------------------------------------------------------------------ *)
(* Strings that the code inspects character by character are sequences of    *)
(* one-character strings; the others are plain strings.                      *)
(* ------------------------------------------------------------------------ *)
Digits == {"0", "1", "2", "3", "4", "5", "6", "7", "8", "9"}
Whitespace == {" "}
Null == <<"null">>

S(str) ==
  CASE str = "" -> <<>>
    [] str = " " -> <<" ">>
    [] str = "Asha" -> <<"A", "s", "h", "a">>
    [] str = " Asha " -> <<" ", "A", "s", "h", "a", " ">>
    [] str = "a@x.in" -> <<"a", "@", "x", ".", "i", "n">>
    [] str = "9876543210" -> <<"9", "8", "7", "6", "5", "4", "3", "2", "1", "0">>
    [] str = "98765 43210" -> <<"9", "8", "7", "6", "5", " ", "4", "3", "2", "1", "0">>
    [] str = "1234567890" -> <<"1", "2", "3", "4", "5", "6", "7", "8", "9", "0">>
    [] str = "987654321" -> <<"9", "8", "7", "6", "5", "4", "3", "2", "1">>
    [] str = "abc" -> <<"a", "b", "c">>
    [] str = "Ravi" -> <<"R", "a", "v", "i">>
    [] str = "ash" -> <<"a", "s", "h">>
    [] str = "RAV" -> <<"R", "A", "V">>
    [] str = "a 9" -> <<"a", " ", "9">>

\* String.prototype.trim
RECURSIVE TrimLeft(_)
TrimLeft(s) ==
  IF s # <<>> /\ Head(s) \in Whitespace THEN TrimLeft(Tail(s)) ELSE s

RECURSIVE TrimRight(_)
TrimRight(s) ==
  IF s # <<>> /\ s[Len(s)] \in Whitespace
  THEN TrimRight(SubSeq(s, 1, Len(s) - 1)) ELSE s

Trim(s) == TrimRight(TrimLeft(s))

\* value.trim() || null
TrimOrNull(s) == IF Trim(s) = <<>> THEN Null ELSE Trim(s)

\* value.replace(/\D/g, '')
RECURSIVE StripNonDigits(_)
StripNonDigits(s) ==
  IF s = <<>> THEN <<>>
  ELSE IF Head(s) \in Digits THEN <<Head(s)>> \o StripNonDigits(Tail(s))
  ELSE StripNonDigits(Tail(s))

\* the phone field's input handler: digits only, at most ten of them
PhoneInputHandler(raw) ==
  LET value == StripNonDigits(raw)
  IN  IF Len(value) > 10 THEN SubSeq(value, 1, 10) ELSE value

\* mutant: the pattern without the leading-digit class, /^\d{10}$/
PhoneRegexTest_AnyTenDigits(s) ==
  /\ Len(s) = 10
  /\ \A i \in 1..10 : s[i] \in Digits

\* /^[6-9]\d{9}$/.test(s)
PhoneRegexTest(s) ==
  /\ Len(s) = 10
  /\ s[1] \in {"6", "7", "8", "9"}
  /\ \A i \in 2..10 : s[i] \in Digits

(* ------------------------------------------------------------------------ *)
(* Dates.  Time is counted in minutes from 00:00 UTC of day 0; a date string *)
(* "YYYY-MM-DD" is <<d>>, d its day number, and the empty string is <<>>.    *)
(* ------------------------------------------------------------------------ *)
\* new Date("YYYY-MM-DD").getTime(): a date-only string is parsed as UTC
\* midnight, <<t>>; new Date("") is an Invalid Date, whose time value is
\* NaN, <<>>
ParseDate(dateString) ==
  IF dateString = <<>> THEN <<>> ELSE <<dateString[1] * 1440>>

\* the local calendar day of the instant now in a zone off minutes east of
\* UTC
LocalDay(now, off) == (now + off) \div 1440

\* mutant: setUTCHours(0, 0, 0, 0), midnight of the UTC day
LocalMidnight_UTC(now, off) == (now \div 1440) * 1440

\* new Date() followed by setHours(0, 0, 0, 0): local midnight, as an instant
LocalMidnight(now, off) == LocalDay(now, off) * 1440 - off

\* selectedDate < todayDate: a comparison with NaN is false
DateIsPast(dateString, now, off) ==
  LET selectedDate == ParseDate(dateString)
      todayDate == LocalMidnight(now, off)
  IN  IF selectedDate = <<>> THEN FALSE ELSE selectedDate[1] < todayDate

(* ------------------------------------------------------------------------ *)
(* State                                                                     *)
(* ------------------------------------------------------------------------ *)
VARIABLES
  \* the document database and the platform
  reservations,      \* collection 'reservations': document id -> fields
  nextId,            \* the next identifier the database assigns
  serverClock,       \* the last server timestamp handed out
  \* the reservation page (one browser tab)
  variant,           \* "message": reservations.js; "successUI": part_002
  firebaseState,     \* "undefined", "noapp" or "ready"
  nowUtc,            \* the browser's clock
  tzOffset,          \* the browser's UTC offset, in minutes east
  form,              \* the values of the form's fields
  submitDisabled,    \* submitButton.disabled
  messageDiv,        \* the inline message: className, textContent, display
  pcSubmit,          \* "idle", or "awaiting" db.collection(...).add
  addPending,        \* the add calls issued and not yet settled: formData
  reenableTimer,     \* the 3 s setTimeout of the inline-message variant
  successUI,         \* "none", "fading" (400 ms timer pending) or "shown"
  consoleError,      \* the error last given to console.error, else <<>>
  \* the Admin Console page (one browser tab)
  authUser,          \* the identity provider's session in this browser
  authQueue,         \* auth-state notifications not yet delivered
  currentUser,       \* let currentUser
  screen,            \* "loading", "login" or "dashboard"
  listeners,         \* live onSnapshot subscriptions of this page
  allReservations,   \* let allReservations
  stats,             \* the four div.stat-value texts once updateStats has run
  filteredReservations, \* let filteredReservations
  modalDisplay,      \* reservationModal.style.display
  modalBody,         \* <<the details modal as rendered>>; <<>> while hidden
  adminPending,      \* the update and delete calls issued and not settled
  alertText,         \* the text of the last alert() shown, else ""
  filterStatus,      \* the value of select#filter-status
  filterDate,        \* the value of input#filter-date: <<>> when unset
  searchInput,       \* the value of input#search-input
  \* the Notification Trigger
  events,            \* document id -> the snapshot of its creation event
  delivered,         \* document id -> invocations started for its event
  invocation,        \* <<the invocation running or last finished>>, else <<>>
  \* the authentication service (one browser tab of the site)
  accounts,          \* the identity provider's accounts: email -> record
  users,             \* collection 'users': uid -> profile
  session,           \* firebaseAuth.currentUser: <<uid>>, else <<>>
  call,              \* <<the service call running>>, else <<>>
  outcome,           \* <<how the last service call settled>>, else <<>>
  \* the auth service's onAuthStateChanged
  subscribed,        \* the service's listener is registered with the provider
  notifications,     \* auth-state changes the provider has yet to deliver
  reads,             \* listener invocations awaiting getUserData, by uid
  lastCallback       \* <<the argument of the latest call of callback>>

storeVars == <<reservations, nextId, serverClock>>
envVars == <<variant, firebaseState, nowUtc, tzOffset>>
pageVars == <<form, submitDisabled, messageDiv, pcSubmit, addPending,
              reenableTimer, successUI, consoleError>>
adminVars == <<authUser, authQueue, currentUser, screen, listeners,
               allReservations, stats, filteredReservations, modalDisplay, modalBody,
               adminPending, alertText>>
filterVars == <<filterStatus, filterDate, searchInput>>
triggerVars == <<events, delivered, invocation>>
svcVars == <<accounts, users, session, call, outcome>>
listenerVars == <<subscribed, notifications, reads, lastCallback>>
vars == <<storeVars, envVars, pageVars, adminVars, filterVars, triggerVars,
          svcVars, listenerVars>>

\* reservationForm.reset(): every field back to its default, the empty value
EmptyForm ==
  [customerName |-> <<>>, customerPhone |-> <<>>, customerEmail |-> <<>>,
   partySize |-> "", reservationDate |-> <<>>, reservationTime |-> "",
   specialRequests |-> <<>>]

\* messageDiv.textContent = ''; messageDiv.className = 'form-message'
ClearedMessage ==
  [className |-> "form-message", textContent |-> "", display |-> "block"]

\* the field values a visitor enters, relative to the local calendar day
FieldSamples(today) ==
  LET ok == [customerName |-> S(" Asha "), customerEmail |-> S("a@x.in"),
             partySize |-> "2", reservationDate |-> <<today>>,
             reservationTime |-> "19:00", specialRequests |-> <<>>]
  IN  { ok,
        [ok EXCEPT !.customerName = S("Ravi"), !.customerEmail = <<>>,
                   !.reservationDate = <<today + 1>>],
        [ok EXCEPT !.reservationDate = <<today - 1>>],
        [ok EXCEPT !.customerName = S(" ")],
        [ok EXCEPT !.partySize = ""],
        [ok EXCEPT !.reservationDate = <<>>],
        [ok EXCEPT !.reservationTime = ""] }

\* what a visitor types or pastes into the phone field
RawPhoneSamples ==
  { S("9876543210"), S("98765 43210"), S("1234567890"), S("987654321"),
    S("abc") }

\* the error objects a rejected write carries
WriteErrors ==
  { [message |-> "Missing or insufficient permissions."], [message |-> ""] }

(* ------------------------------------------------------------------------ *)
(* Reservation Intake: the submit handler                                    *)
(* ------------------------------------------------------------------------ *)
ServerTimestamp == "serverTimestamp"   \* FieldValue.serverTimestamp()

\* the formData object literal
FormData(f) ==
  [customerName |-> Trim(f.customerName),
   customerPhone |-> Trim(f.customerPhone),
   customerEmail |-> TrimOrNull(f.customerEmail),
   partySize |-> f.partySize,
   reservationDate |-> f.reservationDate,
   reservationTime |-> f.reservationTime,
   specialRequests |-> TrimOrNull(f.specialRequests),
   status |-> "pending"]

\* the statements of the try block up to the add call: <<error>> when one of
\* them throws, <<>> when the add call is reached
ValidationError(formData, fb, now, off) ==
  IF fb = "undefined"
  THEN <<[message |-> "firebase is not defined"]>>
  ELSE IF ~PhoneRegexTest(formData.customerPhone)
  THEN <<[message |-> "Please enter a valid 10-digit Indian phone number"]>>
  ELSE IF DateIsPast(formData.reservationDate, now, off)
  THEN <<[message |-> "Please select a future date"]>>
  ELSE IF fb = "noapp"
  THEN <<[message |-> "Firebase is not initialized. Please check your configuration."]>>
  ELSE <<>>

FallbackMessage == "An error occurred. Please try again or call us directly."

\* mutant: the error's own message is dropped
ErrorMessage_AlwaysFallback(error) == FallbackMessage

\* the catch block: the message shown
ErrorMessage(error) ==
  IF error.message # "" THEN error.message ELSE FallbackMessage

\* the catch block: message shown, button re-enabled, form left as it is
CatchBlock(error) ==
  /\ consoleError' = <<error>>
  /\ messageDiv' = [className |-> "form-message form-message-error",
                    textContent |-> "X " \o ErrorMessage(error),
                    display |-> messageDiv.display]
  /\ submitDisabled' = FALSE
  /\ pcSubmit' = "idle"
  /\ addPending' = IF pcSubmit = "awaiting" THEN Tail(addPending) ELSE addPending
  /\ UNCHANGED <<form, reenableTimer, successUI>>

\* whether the submit event can be dispatched: the form is in the page and
\* its submit button is not disabled
CanSubmit == ~submitDisabled /\ pcSubmit = "idle" /\ successUI = "none"

\* the submit listener, from the event to the first await or to the end of
\* the catch block
SubmitHandler ==
  /\ CanSubmit
  /\ LET formData == FormData(form)
         thrown == ValidationError(formData, firebaseState, nowUtc, tzOffset)
     IN  IF thrown # <<>>
         THEN CatchBlock(thrown[1])
         ELSE /\ submitDisabled' = TRUE
              /\ messageDiv' = [ClearedMessage EXCEPT !.display = messageDiv.display]
              /\ addPending' = Append(addPending, formData)
              /\ pcSubmit' = "awaiting"
              /\ UNCHANGED <<form, reenableTimer, successUI, consoleError>>
  /\ UNCHANGED <<storeVars, envVars, listenerVars, filterVars, svcVars, adminVars, triggerVars>>

\* the document the database stores for an add: the fields sent, the two
\* server timestamps resolved to the commit time
NewDocument(formData, commitTime) ==
  [f \in DOMAIN formData \cup {"createdAt", "updatedAt"} |->
     IF f \in {"createdAt", "updatedAt"} THEN commitTime ELSE formData[f]]

\* mutant: doc('1').set(formData) in place of add(formData)
CommitAdd_FixedId(formData) ==
  /\ nextId <= MaxRes
  /\ serverClock < MaxClock
  /\ serverClock' = serverClock + 1
  /\ reservations' =
       [id \in DOMAIN reservations \cup {1} |->
          IF id = 1 THEN NewDocument(formData, serverClock + 1)
          ELSE reservations[id]]
  /\ nextId' = nextId + 1
  /\ events' = [id \in DOMAIN events \cup {nextId} |->
                  IF id = nextId THEN NewDocument(formData, serverClock + 1)
                  ELSE events[id]]
  /\ delivered' = [id \in DOMAIN delivered \cup {nextId} |->
                     IF id = nextId THEN 0 ELSE delivered[id]]

\* collection.add commits: the document is stored under a fresh identifier
\* and the platform records its creation event for the trigger
CommitAdd(formData) ==
  /\ nextId <= MaxRes
  /\ serverClock < MaxClock
  /\ serverClock' = serverClock + 1
  /\ reservations' =
       [id \in DOMAIN reservations \cup {nextId} |->
          IF id = nextId THEN NewDocument(formData, serverClock + 1)
          ELSE reservations[id]]
  /\ nextId' = nextId + 1
  /\ events' = [id \in DOMAIN events \cup {nextId} |->
                  IF id = nextId THEN NewDocument(formData, serverClock + 1)
                  ELSE events[id]]
  /\ delivered' = [id \in DOMAIN delivered \cup {nextId} |->
                     IF id = nextId THEN 0 ELSE delivered[id]]

\* the add resolves: the statements after the await, per variant
AddResolves ==
  /\ pcSubmit = "awaiting"
  /\ CommitAdd(addPending[1])
  /\ IF variant = "message"
     THEN /\ messageDiv' = [className |-> "form-message form-message-success",
                            textContent |-> "Reservation request submitted successfully!",
                            display |-> messageDiv.display]
          /\ reenableTimer' = TRUE
          /\ UNCHANGED successUI
     ELSE /\ messageDiv' = [messageDiv EXCEPT !.display = "none"]
          /\ successUI' = "fading"
          /\ UNCHANGED reenableTimer
  /\ form' = EmptyForm
  /\ pcSubmit' = "idle"
  /\ addPending' = Tail(addPending)
  /\ UNCHANGED <<submitDisabled, consoleError, envVars, listenerVars, filterVars, svcVars, adminVars, invocation>>

\* the add rejects (security rules, backend error): the catch block runs
AddRejects ==
  /\ pcSubmit = "awaiting"
  /\ \E error \in WriteErrors : CatchBlock(error)
  /\ UNCHANGED <<storeVars, envVars, listenerVars, filterVars, svcVars, adminVars, triggerVars>>

\* mutant: setInterval in place of setTimeout, the callback keeps firing
ReenableTimerFires_Interval ==
  /\ variant = "message"
  /\ reenableTimer' = FALSE
  /\ submitDisabled' = FALSE
  /\ UNCHANGED <<form, messageDiv, pcSubmit, addPending, successUI,
                 consoleError, storeVars, envVars, listenerVars, filterVars, svcVars, adminVars, triggerVars>>

\* setTimeout(..., 3000) of the inline-message variant fires
ReenableTimerFires ==
  /\ reenableTimer
  /\ reenableTimer' = FALSE
  /\ submitDisabled' = FALSE
  /\ UNCHANGED <<form, messageDiv, pcSubmit, addPending, successUI,
                 consoleError, storeVars, envVars, listenerVars, filterVars, svcVars, adminVars, triggerVars>>

\* showSuccessUI's setTimeout(..., 400) fires: the widget is replaced
SuccessUITimerFires ==
  /\ successUI = "fading"
  /\ successUI' = "shown"
  /\ UNCHANGED <<form, submitDisabled, messageDiv, pcSubmit, addPending,
                 reenableTimer, consoleError, storeVars, envVars, listenerVars, filterVars, svcVars, adminVars, triggerVars>>

\* makeAnotherReservation: window.location.reload()
makeAnotherReservation ==
  /\ successUI = "shown"
  /\ form' = EmptyForm
  /\ submitDisabled' = FALSE
  /\ messageDiv' = ClearedMessage
  /\ pcSubmit' = "idle"
  /\ addPending' = <<>>
  /\ reenableTimer' = FALSE
  /\ successUI' = "none"
  /\ consoleError' = <<>>
  /\ UNCHANGED <<storeVars, envVars, listenerVars, filterVars, svcVars, adminVars, triggerVars>>

\* the visitor fills in the fields other than the phone (between two
\* submissions: what is typed while an add is in flight is not read)
EnterFields ==
  /\ successUI = "none"
  /\ pcSubmit = "idle"
  /\ \E f \in FieldSamples(LocalDay(nowUtc, tzOffset)) :
       form' = [n \in DOMAIN form |->
                  IF n = "customerPhone" THEN form[n] ELSE f[n]]
  /\ UNCHANGED <<submitDisabled, messageDiv, pcSubmit, addPending,
                 reenableTimer, successUI, consoleError, storeVars, envVars, listenerVars, filterVars, svcVars, adminVars, triggerVars>>

\* the visitor types into the phone field: the input listener runs
PhoneInput ==
  /\ successUI = "none"
  /\ pcSubmit = "idle"
  /\ \E raw \in RawPhoneSamples :
       form' = [form EXCEPT !.customerPhone = PhoneInputHandler(raw)]
  /\ UNCHANGED <<submitDisabled, messageDiv, pcSubmit, addPending,
                 reenableTimer, successUI, consoleError, storeVars, envVars, listenerVars, filterVars, svcVars, adminVars, triggerVars>>

IntakeNext ==
  \/ EnterFields
  \/ PhoneInput
  \/ SubmitHandler
  \/ AddResolves
  \/ AddRejects
  \/ ReenableTimerFires
  \/ SuccessUITimerFires
  \/ makeAnotherReservation

PageInit ==
  /\ form = EmptyForm
  /\ submitDisabled = FALSE
  /\ messageDiv = ClearedMessage
  /\ pcSubmit = "idle"
  /\ addPending = <<>>
  /\ reenableTimer = FALSE
  /\ successUI = "none"
  /\ consoleError = <<>>

StoreInit ==
  /\ reservations = << >>
  /\ nextId = 1
  /\ serverClock = 0
  /\ events = << >>
  /\ delivered = << >>
  /\ invocation = <<>>

\* the browsers the page is opened in, as <<clock, UTC offset>>: Baker
\* Island (UTC-12) and London at 01:00 UTC of day 2, New York (UTC-5) at
\* 15:00 UTC of day 2, Kolkata (UTC+5:30) and Kiritimati (UTC+14) at 22:00
\* UTC of day 2
Browsers ==
  { <<2940, 0 - 720>>, <<3780, 0 - 300>>, <<2940, 0>>, <<4200, 330>>,
    <<4200, 840>> }

IntakeInit ==
  /\ StoreInit
  /\ PageInit
  /\ variant \in {"message", "successUI"}
  /\ firebaseState \in {"undefined", "noapp", "ready"}
  /\ \E b \in Browsers : nowUtc = b[1] /\ tzOffset = b[2]

(* ------------------------------------------------------------------------ *)
(* Admin Console                                                             *)
(* ------------------------------------------------------------------------ *)
OperatorUser == [uid |-> "operator", email |-> "manager@onesip.co.in"]

Statuses == {"pending", "confirmed", "cancelled"}

\* { id: doc.id, ...doc.data() }
WithId(id, data) ==
  [f \in DOMAIN data \cup {"id"} |-> IF f = "id" THEN id ELSE data[f]]

\* the query orderBy('createdAt', 'desc'), walked by snapshot.forEach
RECURSIVE OrderByCreatedAtDesc(_, _)
OrderByCreatedAtDesc(coll, ids) ==
  IF ids = {} THEN <<>>
  ELSE LET first == CHOOSE i \in ids :
                      \A j \in ids : coll[j].createdAt <= coll[i].createdAt
       IN  <<WithId(first, coll[first])>>
             \o OrderByCreatedAtDesc(coll, ids \ {first})

\* handleLogin: signInWithEmailAndPassword is accepted or refused
handleLogin ==
  /\ screen = "login"
  /\ authUser = <<>>
  /\ listeners < MaxListeners
  /\ \E accepted \in BOOLEAN :
       IF accepted
       THEN /\ authUser' = <<OperatorUser>>
            /\ authQueue' = Append(authQueue, <<OperatorUser>>)
       ELSE UNCHANGED <<authUser, authQueue>>
  /\ UNCHANGED <<currentUser, screen, listeners, alertText, allReservations, stats,
                 filteredReservations, modalDisplay, modalBody, adminPending,
                 storeVars, envVars, listenerVars, filterVars, svcVars, pageVars, triggerVars>>

\* handleLogout: signOut is performed, or fails and is only logged
handleLogout ==
  /\ screen = "dashboard"
  /\ authUser # <<>>
  /\ \E performed \in BOOLEAN :
       IF performed
       THEN /\ authUser' = <<>>
            /\ authQueue' = Append(authQueue, <<>>)
       ELSE UNCHANGED <<authUser, authQueue>>
  /\ UNCHANGED <<currentUser, screen, listeners, alertText,
                 allReservations, stats, filteredReservations, modalDisplay,
                 modalBody, adminPending, storeVars, envVars, listenerVars, filterVars,
                 svcVars, pageVars, triggerVars>>

\* mutant: the callback shows the dashboard whatever it is given
AuthStateChanged_NoCheck ==
  /\ authQueue # <<>>
  /\ currentUser' = Head(authQueue)
  /\ screen' = "dashboard"
  /\ listeners' = listeners + 1
  /\ authQueue' = Tail(authQueue)
  /\ UNCHANGED <<authUser, alertText, allReservations, stats,
                 filteredReservations, modalDisplay, modalBody, adminPending,
                 storeVars, envVars, listenerVars, filterVars, svcVars, pageVars,
                 triggerVars>>

\* the onAuthStateChanged callback: showDashboard (which calls
\* loadReservations and so opens a subscription) or showLogin
AuthStateChanged ==
  /\ authQueue # <<>>
  /\ LET user == Head(authQueue)
     IN  IF user # <<>>
         THEN /\ currentUser' = user
              /\ screen' = "dashboard"
              /\ listeners' = listeners + 1
         ELSE /\ screen' = "login"
              /\ UNCHANGED <<currentUser, listeners>>
  /\ authQueue' = Tail(authQueue)
  /\ UNCHANGED <<authUser, alertText, allReservations, stats, filteredReservations,
                 modalDisplay, modalBody, adminPending,
                 storeVars, envVars, listenerVars, filterVars, svcVars, pageVars, triggerVars>>

\* new Date().toISOString().split('T')[0]: the calendar day in UTC
IsoDate(now) == <<now \div 1440>>

\* updateStats: the texts of stat-today, stat-pending, stat-confirmed and
\* stat-total
updateStats(list, now) ==
  LET today == IsoDate(now)
  IN  [today |-> Len(SelectSeq(list, LAMBDA r : r.reservationDate = today)),
       pending |-> Len(SelectSeq(list, LAMBDA r : r.status = "pending")),
       confirmed |-> Len(SelectSeq(list, LAMBDA r : r.status = "confirmed")),
       total |-> Len(list)]

\* the onSnapshot callback: both lists rebuilt from the snapshot
SnapshotCallback ==
  /\ listeners > 0
  /\ allReservations' = OrderByCreatedAtDesc(reservations, DOMAIN reservations)
  /\ filteredReservations' = allReservations'
  /\ stats' = <<updateStats(allReservations', nowUtc)>>
  /\ UNCHANGED <<authUser, authQueue, currentUser, screen, listeners, alertText,
                 modalDisplay, modalBody, adminPending,
                 storeVars, envVars, listenerVars, filterVars, svcVars, pageVars, triggerVars>>

\* mutant: the Cancel button passes 'canceled'
ModalActions_Typo(reservation) ==
  (IF reservation.status = "pending"
   THEN {[fn |-> "updateReservationStatus", newStatus |-> "confirmed"]}
   ELSE {})
  \cup
  (IF reservation.status # "cancelled"
   THEN {[fn |-> "updateReservationStatus", newStatus |-> "canceled"]}
   ELSE {})
  \cup {[fn |-> "deleteReservation", newStatus |-> ""]}

\* the buttons of div.modal-actions, each with the call its onclick makes
ModalActions(reservation) ==
  (IF reservation.status = "pending"
   THEN {[fn |-> "updateReservationStatus", newStatus |-> "confirmed"]}
   ELSE {})
  \cup
  (IF reservation.status # "cancelled"
   THEN {[fn |-> "updateReservationStatus", newStatus |-> "cancelled"]}
   ELSE {})
  \cup {[fn |-> "deleteReservation", newStatus |-> ""]}

\* showReservationDetails: the modal is rendered from the in-memory list
showReservationDetails(reservationId) ==
  LET found == SelectSeq(allReservations, LAMBDA r : r.id = reservationId)
  IN  IF found = <<>>
      THEN UNCHANGED <<modalBody, modalDisplay>>
      ELSE /\ modalBody' = <<[id |-> found[1].id,
                              status |-> found[1].status,
                              actions |-> ModalActions(found[1])]>>
           /\ modalDisplay' = "block"

\* a row of the rendered table is clicked
RowClicked ==
  /\ screen = "dashboard"
  /\ modalDisplay = "none"
  /\ \E i \in 1..Len(filteredReservations) :
       showReservationDetails(filteredReservations[i].id)
  /\ UNCHANGED <<authUser, authQueue, currentUser, screen, listeners, alertText,
                 allReservations, stats, filteredReservations, adminPending,
                 storeVars, envVars, listenerVars, filterVars, svcVars, pageVars, triggerVars>>

\* the close control, or a click on the backdrop
CloseModal ==
  /\ modalDisplay = "block"
  /\ modalDisplay' = "none"
  /\ modalBody' = <<>>
  /\ UNCHANGED <<authUser, authQueue, currentUser, screen, listeners, alertText,
                 allReservations, stats, filteredReservations,
                 adminPending, storeVars, envVars, listenerVars, filterVars, svcVars, pageVars, triggerVars>>

\* mutant: the status change also blanks the trigger's annotation
StatusUpdate_ClearsError(newStatus) ==
  [status |-> newStatus, updatedAt |-> ServerTimestamp, emailError |-> ""]

\* mutant: the update carries the status alone
StatusUpdate_NoTimestamp(newStatus) == [status |-> newStatus]

\* the argument of doc(reservationId).update in updateReservationStatus
StatusUpdate(newStatus) ==
  [status |-> newStatus, updatedAt |-> ServerTimestamp]

\* updateReservationStatus, up to its await
updateReservationStatus(reservationId, newStatus) ==
  adminPending' = Append(adminPending,
                         [op |-> "update", id |-> reservationId,
                          fields |-> StatusUpdate(newStatus),
                          prompt |-> "none"])

\* mutant: the delete is issued whatever confirm() returns
deleteReservation_NoPrompt(reservationId, accepted) ==
  adminPending' = Append(adminPending,
                         [op |-> "delete", id |-> reservationId,
                          fields |-> << >>,
                          prompt |-> IF accepted THEN "accepted"
                                     ELSE "declined"])

\* deleteReservation, up to its await: nothing is issued unless the
\* confirm() prompt is accepted; prompt is what confirm() returned to the
\* call that issued the write
deleteReservation(reservationId, accepted) ==
  IF ~accepted
  THEN UNCHANGED adminPending
  ELSE adminPending' = Append(adminPending,
                              [op |-> "delete", id |-> reservationId,
                               fields |-> << >>,
                               prompt |-> IF accepted THEN "accepted"
                                          ELSE "declined"])

\* a button of the open modal is clicked
ModalButtonClicked ==
  /\ modalDisplay = "block"
  /\ Len(adminPending) < MaxInFlight
  /\ \E b \in modalBody[1].actions :
       IF b.fn = "updateReservationStatus"
       THEN updateReservationStatus(modalBody[1].id, b.newStatus)
       ELSE \E accepted \in BOOLEAN :
              deleteReservation(modalBody[1].id, accepted)
  /\ UNCHANGED <<authUser, authQueue, currentUser, screen, listeners, alertText,
                 allReservations, stats, filteredReservations, modalDisplay,
                 modalBody, storeVars, envVars, listenerVars, filterVars, svcVars, pageVars, triggerVars>>

\* DocumentReference.update: the named fields are merged into the document,
\* a server timestamp resolved to the commit time
ApplyUpdate(data, fields, commitTime) ==
  [f \in DOMAIN data \cup DOMAIN fields |->
     IF f \in DOMAIN fields
     THEN (IF fields[f] = ServerTimestamp THEN commitTime ELSE fields[f])
     ELSE data[f]]

\* an update commits: the document must exist
CommitUpdate(id, fields) ==
  /\ id \in DOMAIN reservations
  /\ serverClock < MaxClock
  /\ serverClock' = serverClock + 1
  /\ reservations' =
       [reservations EXCEPT ![id] = ApplyUpdate(@, fields, serverClock + 1)]
  /\ UNCHANGED nextId

\* a delete commits, whether or not the document exists
CommitDelete(id) ==
  /\ reservations' = [i \in DOMAIN reservations \ {id} |-> reservations[i]]
  /\ UNCHANGED <<nextId, serverClock>>

\* alert(`Reservation ${newStatus} successfully!`), or the delete's
SuccessAlert(w) ==
  IF w.op = "update"
  THEN "Reservation " \o w.fields.status \o " successfully!"
  ELSE "Reservation deleted successfully!"

\* alert('Error updating reservation: ' + error.message), or the delete's
FailureAlert(w, error) ==
  IF w.op = "update"
  THEN "Error updating reservation: " \o error.message
  ELSE "Error deleting reservation: " \o error.message

\* the errors the database refuses a write with: an update of a document
\* that does not exist is NOT_FOUND; any write may be refused by the rules
RejectionErrors(w) ==
  IF w.op = "update" /\ w.id \notin DOMAIN reservations
  THEN {[message |-> "No document to update"]}
  ELSE {[message |-> "Missing or insufficient permissions."]}

\* the oldest write in flight commits and its caller resumes after the
\* await: the modal is hidden
AdminWriteCommits ==
  /\ adminPending # <<>>
  /\ LET w == Head(adminPending)
     IN  IF w.op = "update" THEN CommitUpdate(w.id, w.fields)
                            ELSE CommitDelete(w.id)
  /\ adminPending' = Tail(adminPending)
  /\ modalDisplay' = "none"
  /\ modalBody' = <<>>
  /\ alertText' = SuccessAlert(Head(adminPending))
  /\ UNCHANGED <<authUser, authQueue, currentUser, screen, listeners,
                 allReservations, stats, filteredReservations,
                 envVars, listenerVars, filterVars, svcVars, pageVars, triggerVars>>

\* the oldest write in flight is refused (no such document, security
\* rules, backend error) and its caller resumes in the catch block
AdminWriteRejects ==
  /\ adminPending # <<>>
  /\ adminPending' = Tail(adminPending)
  /\ \E error \in RejectionErrors(Head(adminPending)) :
       alertText' = FailureAlert(Head(adminPending), error)
  /\ UNCHANGED <<authUser, authQueue, currentUser, screen, listeners,
                 allReservations, stats, filteredReservations, modalDisplay,
                 modalBody, storeVars, envVars, listenerVars, filterVars, svcVars, pageVars, triggerVars>>

\* another operator's console, on data it has just rendered, makes one of
\* the calls its modal offers and the write commits
OtherSessionWrite ==
  /\ \E id \in DOMAIN reservations :
       \E b \in ModalActions(WithId(id, reservations[id])) :
         IF b.fn = "updateReservationStatus"
         THEN CommitUpdate(id, StatusUpdate(b.newStatus))
         ELSE CommitDelete(id)
  /\ UNCHANGED <<envVars, listenerVars, filterVars, svcVars, pageVars, adminVars, triggerVars>>

\* a visitor's page, its form filled in with values that pass validation,
\* runs the submit handler and the add commits
VisitorSubmission ==
  /\ \E f \in FieldSamples(LocalDay(nowUtc, tzOffset)) :
       LET filled == [n \in DOMAIN form |->
                        IF n = "customerPhone"
                        THEN PhoneInputHandler(S("98765 43210")) ELSE f[n]]
           formData == FormData(filled)
       IN  /\ f.customerName # S(" ")
           /\ f.partySize # ""
           /\ f.reservationTime # ""
           /\ f.reservationDate # <<>>
           /\ ValidationError(formData, firebaseState, nowUtc, tzOffset) = <<>>
           /\ CommitAdd(formData)
  /\ UNCHANGED <<envVars, listenerVars, filterVars, svcVars, pageVars, adminVars, invocation>>

(* ------------------------------------------------------------------------ *)
(* Admin Console: the filter controls                                        *)
(* ------------------------------------------------------------------------ *)
\* String.prototype.toLowerCase, over the letters the samples use
LowerCaseOf(c) ==
  CASE c = "A" -> "a" [] c = "H" -> "h" [] c = "R" -> "r" [] c = "S" -> "s"
    [] c = "V" -> "v" [] OTHER -> c

\* mutant: the strings are compared as typed
ToLowerCase_Identity(s) == s

ToLowerCase(s) == [i \in 1..Len(s) |-> LowerCaseOf(s[i])]

\* String.prototype.includes
Includes(text, query) ==
  \E i \in 0..(Len(text) - Len(query)) :
    SubSeq(text, i + 1, i + Len(query)) = query

\* what the operator selects or types in the three controls
StatusFilterSamples == {"all", "pending", "confirmed"}
DateFilterSamples == {<<>>, <<LocalDay(nowUtc, tzOffset)>>}
SearchSamples == {S(""), S("ash"), S("RAV"), S("a 9")}

\* the callback of allReservations.filter in applyFilters
FilterCallback(reservation, statusFilter, dateFilter, searchQuery) ==
  IF statusFilter # "all" /\ reservation.status # statusFilter THEN FALSE
  ELSE IF dateFilter # <<>> /\ reservation.reservationDate # dateFilter
  THEN FALSE
  ELSE IF searchQuery # <<>>
          /\ ~Includes(ToLowerCase(reservation.customerName \o <<" ">>
                                     \o reservation.customerPhone),
                       searchQuery)
  THEN FALSE
  ELSE TRUE

\* applyFilters, reading the controls as they will be when it runs
applyFilters(statusFilter, dateFilter, searchValue) ==
  filteredReservations' =
    SelectSeq(allReservations,
              LAMBDA r : FilterCallback(r, statusFilter, dateFilter,
                                        ToLowerCase(searchValue)))

FilterFrame ==
  UNCHANGED <<authUser, authQueue, currentUser, screen, listeners,
              allReservations, stats, modalDisplay, modalBody, adminPending,
              alertText, storeVars, envVars, listenerVars, svcVars, pageVars,
              triggerVars>>

\* 'change' on select#filter-status
StatusFilterChanged ==
  /\ screen = "dashboard"
  /\ \E v \in StatusFilterSamples \ {filterStatus} :
       /\ filterStatus' = v
       /\ applyFilters(v, filterDate, searchInput)
  /\ UNCHANGED <<filterDate, searchInput>>
  /\ FilterFrame

\* 'change' on input#filter-date
DateFilterChanged ==
  /\ screen = "dashboard"
  /\ \E v \in DateFilterSamples \ {filterDate} :
       /\ filterDate' = v
       /\ applyFilters(filterStatus, v, searchInput)
  /\ UNCHANGED <<filterStatus, searchInput>>
  /\ FilterFrame

\* 'input' on input#search-input
SearchInputChanged ==
  /\ screen = "dashboard"
  /\ \E v \in SearchSamples \ {searchInput} :
       /\ searchInput' = v
       /\ applyFilters(filterStatus, filterDate, v)
  /\ UNCHANGED <<filterStatus, filterDate>>
  /\ FilterFrame

\* a control fires its event again with its value unchanged: applyFilters
\* runs on the same inputs
FilterEventRepeated ==
  /\ screen = "dashboard"
  /\ applyFilters(filterStatus, filterDate, searchInput)
  /\ UNCHANGED <<filterStatus, filterDate, searchInput>>
  /\ FilterFrame

\* mutant: clearing the filters also empties the in-memory list
clearFilters_EmptiesList ==
  /\ screen = "dashboard"
  /\ filterStatus' = "all"
  /\ filterDate' = <<>>
  /\ searchInput' = <<>>
  /\ allReservations' = <<>>
  /\ filteredReservations' = <<>>
  /\ UNCHANGED <<stats, authUser, authQueue, currentUser, screen, listeners,
                 modalDisplay, modalBody, adminPending, alertText, storeVars,
                 envVars, listenerVars, svcVars, pageVars, triggerVars>>

\* clearFilters: the controls are reset, then applyFilters runs
clearFilters ==
  /\ screen = "dashboard"
  /\ filterStatus' = "all"
  /\ filterDate' = <<>>
  /\ searchInput' = <<>>
  /\ applyFilters("all", <<>>, <<>>)
  /\ FilterFrame

\* the Admin Console's list and its filter controls, over a collection that
\* visitors and other operators' sessions keep changing
FilterNext ==
  \/ VisitorSubmission
  \/ OtherSessionWrite
  \/ handleLogin
  \/ AuthStateChanged
  \/ SnapshotCallback
  \/ StatusFilterChanged
  \/ DateFilterChanged
  \/ SearchInputChanged
  \/ FilterEventRepeated
  \/ clearFilters

\* the Admin Console with its writes and its filter controls together
ListNext ==
  \/ VisitorSubmission
  \/ handleLogin
  \/ AuthStateChanged
  \/ SnapshotCallback
  \/ RowClicked
  \/ ModalButtonClicked
  \/ AdminWriteCommits
  \/ AdminWriteRejects
  \/ StatusFilterChanged
  \/ DateFilterChanged
  \/ SearchInputChanged
  \/ clearFilters

(* ------------------------------------------------------------------------ *)
(* Notification Trigger                                                      *)
(* ------------------------------------------------------------------------ *)
\* an address is a one-element sequence, like every other string compared
\* with customerEmail
MANAGER_EMAILS == << <<"biswas31@yahoo.com">>, <<"neilbiswas13@gmail.com">> >>

\* JavaScript truthiness of reservation.customerEmail
Truthy(value) == value # Null /\ value # <<>>

\* the errors sgMail.send rejects with
SendErrors == { [message |-> "Forbidden"], [message |-> "Unauthorized"] }

\* customerEmailPromise: one sendCustomerConfirmation call, or
\* Promise.resolve() when no address was given
CustomerSends(reservation) ==
  IF Truthy(reservation.customerEmail)
  THEN <<[role |-> "customer", to |-> reservation.customerEmail,
          state |-> "inflight"]>>
  ELSE <<>>

\* mutant: only the first manager is written to
ManagerSends_FirstOnly ==
  [i \in 1..1 |->
     [role |-> "manager", to |-> MANAGER_EMAILS[i], state |-> "inflight"]]

\* managerEmailPromises: MANAGER_EMAILS.map(sendManagerNotification)
ManagerSends ==
  [i \in 1..Len(MANAGER_EMAILS) |->
     [role |-> "manager", to |-> MANAGER_EMAILS[i], state |-> "inflight"]]

\* mutant: Promise.allSettled, fulfilled once every send has settled
PromiseAll_Settled(sends) ==
  IF \A i \in 1..Len(sends) : sends[i].state # "inflight"
  THEN "fulfilled" ELSE "pending"

\* Promise.all over the sends: rejected as soon as one is, fulfilled when
\* all are
PromiseAll(sends) ==
  IF \E i \in 1..Len(sends) : sends[i].state = "failed" THEN "rejected"
  ELSE IF \A i \in 1..Len(sends) : sends[i].state = "ok" THEN "fulfilled"
  ELSE "pending"

\* no invocation is running
Finished(inv) == IF inv = <<>> THEN TRUE ELSE inv[1].phase = "done"

\* the platform invokes sendReservationEmails with a creation event; the
\* handler runs up to await Promise.all, every send call made
TriggerStart ==
  /\ Finished(invocation)
  /\ \E id \in DOMAIN events :
       /\ delivered[id] < MaxDeliveries
       /\ delivered' = [delivered EXCEPT ![id] = @ + 1]
       /\ invocation' =
            <<[id |-> id,
               reservation |-> events[id],
               sends |-> ManagerSends \o CustomerSends(events[id]),
               phase |-> "awaitingAll",
               error |-> "",
               result |-> ""]>>
  /\ UNCHANGED <<events, storeVars, envVars, listenerVars, filterVars, svcVars, pageVars, adminVars>>

\* one sgMail.send settles; when that settles Promise.all the handler
\* resumes: return {success: true}, or the catch block up to its await
SendSettles ==
  /\ invocation # <<>>
  /\ \E i \in 1..Len(invocation[1].sends), error \in SendErrors \cup {[message |-> ""]} :
       LET inv == invocation[1]
           sends == [inv.sends EXCEPT ![i].state =
                       IF error.message = "" THEN "ok" ELSE "failed"]
           all == PromiseAll(sends)
       IN  /\ inv.sends[i].state = "inflight"
           /\ invocation' =
                <<IF inv.phase # "awaitingAll" \/ all = "pending"
                  THEN [inv EXCEPT !.sends = sends]
                  ELSE IF all = "fulfilled"
                  THEN [inv EXCEPT !.sends = sends, !.phase = "done",
                                   !.result = "success"]
                  ELSE [inv EXCEPT !.sends = sends, !.phase = "annotating",
                                   !.error = error.message]>>
  /\ UNCHANGED <<events, delivered, storeVars, envVars, listenerVars, filterVars, svcVars, pageVars, adminVars>>

\* mutant: the annotation carries the timestamp alone
ErrorAnnotation_NoMessage(message) ==
  [emailErrorTimestamp |-> ServerTimestamp]

\* the argument of snap.ref.update in the catch block
ErrorAnnotation(message) ==
  [emailError |-> message, emailErrorTimestamp |-> ServerTimestamp]

\* the annotation commits and the handler throws 'Failed to send emails'
AnnotationCommits ==
  /\ invocation # <<>>
  /\ invocation[1].phase = "annotating"
  /\ CommitUpdate(invocation[1].id, ErrorAnnotation(invocation[1].error))
  /\ invocation' = <<[invocation[1] EXCEPT !.phase = "done",
                                           !.result = "failure"]>>
  /\ UNCHANGED <<events, delivered, envVars, listenerVars, filterVars, svcVars, pageVars, adminVars>>

\* the annotation is refused (the document is gone, or a backend error):
\* the await throws out of the catch block
AnnotationRejects ==
  /\ invocation # <<>>
  /\ invocation[1].phase = "annotating"
  /\ invocation' = <<[invocation[1] EXCEPT !.phase = "done",
                                           !.result = "failure"]>>
  /\ UNCHANGED <<events, delivered, storeVars, envVars, listenerVars, filterVars, svcVars, pageVars, adminVars>>

TriggerNext ==
  \/ VisitorSubmission
  \/ OtherSessionWrite
  \/ TriggerStart
  \/ SendSettles
  \/ AnnotationCommits
  \/ AnnotationRejects

(* ------------------------------------------------------------------------ *)
(* Authentication service (src/unnamed/part_002, lines 1-253)                *)
(* ------------------------------------------------------------------------ *)
\* the arguments the site's forms pass to the service
Emails == {"asha@x.in", "ravi@x.in"}
InvalidEmails == {"asha"}
Passwords == {"secret1", "wrong00"}
WeakPasswords == {"123"}
Names == {"Asha Rao"}

\* the account identifier the identity provider assigns: one per account
Uid(email) == "uid:" \o email
Uids == {Uid(e) : e \in Emails}

\* the objects updateUserProfile is called with
ProfileUpdates == { [displayName |-> "Asha R"], [role |-> "admin"] }

GenericErrorMessage == "An error occurred. Please try again."

\* mutant: the table is consulted without the || fallback
getErrorMessage_NoFallback(errorCode) ==
  CASE errorCode = "auth/email-already-in-use" ->
         "This email is already registered. Please sign in instead."
    [] errorCode = "auth/invalid-email" -> "Please enter a valid email address."
    [] errorCode = "auth/weak-password" ->
         "Password should be at least 6 characters long."
    [] errorCode = "auth/user-not-found" ->
         "No account found with this email. Please sign up first."
    [] errorCode = "auth/wrong-password" -> "Incorrect password. Please try again."
    [] errorCode = "auth/too-many-requests" ->
         "Too many failed attempts. Please try again later."
    [] errorCode = "auth/network-request-failed" ->
         "Network error. Please check your internet connection."
    [] OTHER -> "undefined"

\* getErrorMessage: errorMessages[errorCode] || 'An error occurred. ...'
getErrorMessage(errorCode) ==
  CASE errorCode = "auth/email-already-in-use" ->
         "This email is already registered. Please sign in instead."
    [] errorCode = "auth/invalid-email" -> "Please enter a valid email address."
    [] errorCode = "auth/operation-not-allowed" ->
         "Email/password accounts are not enabled. Please contact support."
    [] errorCode = "auth/weak-password" ->
         "Password should be at least 6 characters long."
    [] errorCode = "auth/user-disabled" ->
         "This account has been disabled. Please contact support."
    [] errorCode = "auth/user-not-found" ->
         "No account found with this email. Please sign up first."
    [] errorCode = "auth/wrong-password" -> "Incorrect password. Please try again."
    [] errorCode = "auth/too-many-requests" ->
         "Too many failed attempts. Please try again later."
    [] errorCode = "auth/network-request-failed" ->
         "Network error. Please check your internet connection."
    [] OTHER -> GenericErrorMessage

\* the error codes the identity provider can refuse a call with whatever its
\* arguments (the request did not get through, or an unlisted failure), and
\* those the database refuses a read or a write with
ProviderFailures == {"auth/network-request-failed", "auth/internal-error"}
DatabaseFailures == {"permission-denied", "unavailable"}

\* the codes createUserWithEmailAndPassword can reject with
CreateUserErrors(email, password) ==
  (IF email \in InvalidEmails THEN {"auth/invalid-email"} ELSE {})
  \cup (IF password \in WeakPasswords THEN {"auth/weak-password"} ELSE {})
  \cup (IF email \in DOMAIN accounts THEN {"auth/email-already-in-use"} ELSE {})
  \cup ProviderFailures

\* the codes signInWithEmailAndPassword can reject with
SignInErrors(email, password) ==
  (IF email \notin DOMAIN accounts THEN {"auth/user-not-found"}
   ELSE IF accounts[email].password # password
   THEN {"auth/wrong-password", "auth/too-many-requests"} ELSE {})
  \cup ProviderFailures

\* the frame of a service call running up to its first await
NewCall(fn, email, password, name, uid, data, pc) ==
  [fn |-> fn, email |-> email, password |-> password,
   name |-> name, uid |-> uid, data |-> data, pc |-> pc]

\* nothing else changes while a function runs up to its first await
CallFrame ==
  UNCHANGED <<accounts, users, session, outcome, storeVars, envVars, listenerVars,
              pageVars, adminVars, filterVars, triggerVars>>

\* the async function's promise resolves with value; caught is the error
\* its catch block logged, if it ran
Return(value, caught) ==
  /\ outcome' = <<[fn |-> call[1].fn, email |-> call[1].email,
                   settled |-> "resolved", value |-> value,
                   caught |-> caught]>>
  /\ call' = <<>>

\* mutant: every catch block returns the generic sentence
Catch_GenericMessage(fn, error) ==
  [success |-> FALSE, error |-> GenericErrorMessage]

\* the catch block of each function: the object it returns
Catch(fn, error) ==
  [success |-> FALSE,
   error |-> CASE fn \in {"signUpUser", "signInUser", "resetPassword"} ->
                    getErrorMessage(error.code)
               [] fn = "signOutUser" -> "Failed to sign out. Please try again."
               [] fn = "getUserData" -> "Failed to fetch user data"
               [] fn = "updateUserProfile" -> "Failed to update profile"]

\* mutant: the catch block also ends the session
Rejects_SignsOut(codes) ==
  /\ \E code \in codes :
       Return(Catch(call[1].fn, [code |-> code]), <<[code |-> code]>>)
  /\ session' = <<>>
  /\ UNCHANGED <<accounts, users, storeVars>>

\* an awaited call rejects with one of codes: the catch block runs
Rejects(codes) ==
  /\ \E code \in codes :
       Return(Catch(call[1].fn, [code |-> code]), <<[code |-> code]>>)
  /\ UNCHANGED <<accounts, users, session, storeVars>>

At(fn, pc) == call # <<>> /\ call[1].fn = fn /\ call[1].pc = pc

Goto(pc) == call' = <<[call[1] EXCEPT !.pc = pc]>> /\ UNCHANGED outcome

\* the provider queues a notification for the registered listener when the
\* signed-in user changes
NotifyListener ==
  IF subscribed /\ session' # session
  THEN /\ Len(notifications) < MaxNotifications
       /\ notifications' = Append(notifications, session')
  ELSE UNCHANGED notifications

SvcFrame ==
  /\ NotifyListener
  /\ UNCHANGED <<subscribed, reads, lastCallback>>
  /\ UNCHANGED <<envVars, pageVars, adminVars, filterVars, triggerVars>>

signUpUser ==
  /\ call = <<>>
  /\ \E email \in Emails \cup InvalidEmails, password \in {"secret1"} \cup WeakPasswords, name \in Names :
       call' = <<NewCall("signUpUser", email, password, name, "", << >>, "createUser")>>
  /\ CallFrame

\* createUserWithEmailAndPassword settles: on success the account exists and
\* its user is signed in
CreateUserSettles ==
  /\ At("signUpUser", "createUser")
  /\ LET c == call[1]
     IN  \/ Rejects(CreateUserErrors(c.email, c.password))
         \/ /\ CreateUserErrors(c.email, c.password) = ProviderFailures
            /\ accounts' = [e \in DOMAIN accounts \cup {c.email} |->
                              IF e = c.email
                              THEN [uid |-> Uid(c.email), email |-> c.email,
                                    password |-> c.password, displayName |-> ""]
                              ELSE accounts[e]]
            /\ session' = <<Uid(c.email)>>
            /\ Goto("updateProfile")
            /\ UNCHANGED <<users, storeVars>>
  /\ SvcFrame

\* user.updateProfile({displayName: name}) settles
UpdateProfileSettles ==
  /\ At("signUpUser", "updateProfile")
  /\ \/ Rejects(ProviderFailures)
     \/ /\ accounts' = [accounts EXCEPT ![call[1].email].displayName = call[1].name]
        /\ Goto("setProfile")
        /\ UNCHANGED <<users, session, storeVars>>
  /\ SvcFrame

\* the document signUpUser sets for the new account
NewProfile(uid, email, name) ==
  [uid |-> uid, email |-> email, displayName |-> name,
   createdAt |-> ServerTimestamp, updatedAt |-> ServerTimestamp,
   role |-> "customer", reservations |-> << >>,
   preferences |-> [emailNotifications |-> TRUE, smsNotifications |-> FALSE]]

\* collection('users').doc(user.uid).set(...) settles
ProfileSetSettles ==
  /\ At("signUpUser", "setProfile")
  /\ LET c == call[1]
     IN  \/ Rejects(DatabaseFailures)
         \/ /\ serverClock < MaxClock
            /\ serverClock' = serverClock + 1
            /\ users' = [u \in DOMAIN users \cup {Uid(c.email)} |->
                           IF u = Uid(c.email)
                           THEN ApplyUpdate(NewProfile(u, c.email, c.name),
                                            << >>, serverClock + 1)
                           ELSE users[u]]
            /\ Return([success |-> TRUE,
                       user |-> [uid |-> Uid(c.email), email |-> c.email,
                                 displayName |-> c.name]], <<>>)
            /\ UNCHANGED <<accounts, session, reservations, nextId>>
  /\ SvcFrame

signInUser ==
  /\ call = <<>>
  /\ \E email \in Emails, password \in Passwords :
       call' = <<NewCall("signInUser", email, password, "", "", << >>, "signIn")>>
  /\ CallFrame

\* signInWithEmailAndPassword settles
SignInSettles ==
  /\ At("signInUser", "signIn")
  /\ LET c == call[1]
     IN  \/ Rejects(SignInErrors(c.email, c.password))
         \/ /\ SignInErrors(c.email, c.password) = ProviderFailures
            /\ session' = <<Uid(c.email)>>
            /\ Goto("lastLogin")
            /\ UNCHANGED <<accounts, users, storeVars>>
  /\ SvcFrame

\* a DocumentReference.update on users/uid commits: the document must exist
\* and the rules let a user write no document but their own
CommitProfileUpdate(uid, fields) ==
  /\ uid \in DOMAIN users
  /\ session = <<uid>>
  /\ serverClock < MaxClock
  /\ serverClock' = serverClock + 1
  /\ users' = [users EXCEPT ![uid] = ApplyUpdate(@, fields, serverClock + 1)]
  /\ UNCHANGED <<accounts, session, reservations, nextId>>

\* the codes an update of users/uid is refused with
ProfileUpdateErrors(uid) ==
  (IF uid \notin DOMAIN users THEN {"not-found"} ELSE {})
  \cup DatabaseFailures

\* mutant: a refused lastLogin update undoes the sign-in
LastLoginSettles_RollsBack ==
  /\ At("signInUser", "lastLogin")
  /\ LET c == call[1]
     IN  \/ /\ \E code \in ProfileUpdateErrors(Uid(c.email)) :
                 Return(Catch(c.fn, [code |-> code]), <<[code |-> code]>>)
            /\ session' = <<>>
            /\ UNCHANGED <<accounts, users, storeVars>>
         \/ /\ CommitProfileUpdate(Uid(c.email), [lastLogin |-> ServerTimestamp])
            /\ Return([success |-> TRUE,
                       user |-> [uid |-> Uid(c.email), email |-> c.email,
                                 displayName |-> accounts[c.email].displayName]],
                      <<>>)
  /\ UNCHANGED <<envVars, listenerVars, pageVars, adminVars, filterVars, triggerVars>>

\* doc(user.uid).update({lastLogin: serverTimestamp()}) settles
LastLoginSettles ==
  /\ At("signInUser", "lastLogin")
  /\ LET c == call[1]
     IN  \/ Rejects(ProfileUpdateErrors(Uid(c.email)))
         \/ /\ CommitProfileUpdate(Uid(c.email), [lastLogin |-> ServerTimestamp])
            /\ Return([success |-> TRUE,
                       user |-> [uid |-> Uid(c.email), email |-> c.email,
                                 displayName |-> accounts[c.email].displayName]],
                      <<>>)
  /\ SvcFrame

signOutUser ==
  /\ call = <<>>
  /\ call' = <<NewCall("signOutUser", "", "", "", "", << >>, "signOut")>>
  /\ CallFrame

\* firebaseAuth.signOut() settles
SignOutSettles ==
  /\ At("signOutUser", "signOut")
  /\ \/ Rejects(ProviderFailures)
     \/ /\ session' = <<>>
        /\ Return([success |-> TRUE], <<>>)
        /\ UNCHANGED <<accounts, users, storeVars>>
  /\ SvcFrame

getUserData ==
  /\ call = <<>>
  /\ \E uid \in Uids :
       call' = <<NewCall("getUserData", "", "", "", uid, << >>, "get")>>
  /\ CallFrame

\* collection('users').doc(uid).get() settles
GetSettles ==
  /\ At("getUserData", "get")
  /\ \/ Rejects(DatabaseFailures)
     \/ /\ Return(IF call[1].uid \in DOMAIN users
                  THEN [success |-> TRUE, data |-> users[call[1].uid]]
                  ELSE [success |-> FALSE, error |-> "User data not found"],
                  <<>>)
        /\ UNCHANGED <<accounts, users, session, storeVars>>
  /\ SvcFrame

\* {...data, updatedAt: serverTimestamp()}
ProfileFields(data) ==
  [f \in DOMAIN data \cup {"updatedAt"} |->
     IF f = "updatedAt" THEN ServerTimestamp ELSE data[f]]

updateUserProfile ==
  /\ call = <<>>
  /\ \E uid \in Uids, data \in ProfileUpdates :
       call' = <<NewCall("updateUserProfile", "", "", "", uid, data, "update")>>
  /\ CallFrame

\* doc(uid).update({...data, updatedAt}) settles
UpdateSettles ==
  /\ At("updateUserProfile", "update")
  /\ \/ Rejects(ProfileUpdateErrors(call[1].uid))
     \/ /\ CommitProfileUpdate(call[1].uid, ProfileFields(call[1].data))
        /\ Return([success |-> TRUE], <<>>)
  /\ SvcFrame

resetPassword ==
  /\ call = <<>>
  /\ \E email \in Emails \cup InvalidEmails :
       call' = <<NewCall("resetPassword", email, "", "", "", << >>, "sendReset")>>
  /\ CallFrame

\* sendPasswordResetEmail settles
ResetSettles ==
  /\ At("resetPassword", "sendReset")
  /\ \/ Rejects((IF call[1].email \in InvalidEmails THEN {"auth/invalid-email"}
                 ELSE IF call[1].email \notin DOMAIN accounts
                 THEN {"auth/user-not-found"} ELSE {})
                \cup ProviderFailures)
     \/ /\ call[1].email \in DOMAIN accounts
        /\ Return([success |-> TRUE,
                   message |-> "Password reset email sent. Please check your inbox."],
                  <<>>)
        /\ UNCHANGED <<accounts, users, session, storeVars>>
  /\ SvcFrame

SvcNext ==
  \/ signUpUser
  \/ CreateUserSettles
  \/ UpdateProfileSettles
  \/ ProfileSetSettles
  \/ signInUser
  \/ SignInSettles
  \/ LastLoginSettles
  \/ signOutUser
  \/ SignOutSettles
  \/ getUserData
  \/ GetSettles
  \/ updateUserProfile
  \/ UpdateSettles
  \/ resetPassword
  \/ ResetSettles

SvcInit ==
  /\ accounts = << >>
  /\ users = << >>
  /\ session = <<>>
  /\ call = <<>>
  /\ outcome = <<>>
  /\ subscribed = FALSE
  /\ notifications = <<>>
  /\ reads = <<>>
  /\ lastCallback = <<>>

(* ------------------------------------------------------------------------ *)
(* Auth service: onAuthStateChanged                                          *)
(* ------------------------------------------------------------------------ *)
\* onAuthStateChanged(callback): the listener is registered and the provider
\* notifies it of the current state
onAuthStateChanged ==
  /\ ~subscribed
  /\ subscribed' = TRUE
  /\ notifications' = <<session>>
  /\ UNCHANGED <<reads, lastCallback, svcVars, storeVars, envVars, pageVars,
                 adminVars, filterVars, triggerVars>>

SignedOutState == [isAuthenticated |-> FALSE, user |-> Null]

\* {uid, email, displayName, ...userData.data}: the fields of data, when
\* there is data, laid over the three of the provider's user
MergedUser(user, data) ==
  LET own == [uid |-> user.uid, email |-> user.email,
              displayName |-> user.displayName]
  IN  [f \in DOMAIN own \cup DOMAIN data |->
         IF f \in DOMAIN data THEN data[f] ELSE own[f]]

\* the argument of callback in the signed-in branch
SignedInState(user, data) ==
  [isAuthenticated |-> TRUE, user |-> MergedUser(user, data)]

\* the provider's user object with uid
UserOf(uid) ==
  accounts[CHOOSE email \in DOMAIN accounts : accounts[email].uid = uid]

\* the provider calls the listener: the signed-out branch calls back at
\* once, the signed-in branch runs up to its await of getUserData
AuthListenerInvoked ==
  /\ notifications # <<>>
  /\ notifications' = Tail(notifications)
  /\ IF Head(notifications) = <<>>
     THEN /\ lastCallback' = <<SignedOutState>>
          /\ UNCHANGED reads
     ELSE /\ Len(reads) < MaxReads
          /\ reads' = Append(reads, Head(notifications)[1])
          /\ UNCHANGED lastCallback
  /\ UNCHANGED <<subscribed, svcVars, storeVars, envVars, pageVars, adminVars,
                 filterVars, triggerVars>>

\* what getUserData(uid) resolves with inside the listener: the document,
\* or a success:false object without data when there is none, when the
\* rules refuse the read or when the database fails
UserDataResults(uid) ==
  (IF uid \in DOMAIN users /\ session = <<uid>>
   THEN {[success |-> TRUE, data |-> users[uid]]}
   ELSE {})
  \cup (IF uid \notin DOMAIN users /\ session = <<uid>>
        THEN {[success |-> FALSE, error |-> "User data not found"]}
        ELSE {})
  \cup {[success |-> FALSE, error |-> "Failed to fetch user data"]}

\* userData.data, undefined spreading to nothing
DataOf(userData) ==
  IF "data" \in DOMAIN userData THEN userData.data ELSE << >>

\* the awaited getUserData of one listener invocation resolves and the rest
\* of the signed-in branch runs
ProfileReadSettles ==
  /\ \E i \in 1..Len(reads) :
       /\ \E userData \in UserDataResults(reads[i]) :
            lastCallback' = <<SignedInState(UserOf(reads[i]), DataOf(userData))>>
       /\ reads' = SubSeq(reads, 1, i - 1) \o SubSeq(reads, i + 1, Len(reads))
  /\ UNCHANGED <<subscribed, notifications, svcVars, storeVars, envVars,
                 pageVars, adminVars, filterVars, triggerVars>>

\* the auth service with a subscriber to its auth-state callback
AuthStateNext ==
  \/ onAuthStateChanged
  \/ AuthListenerInvoked
  \/ ProfileReadSettles
  \/ signUpUser
  \/ CreateUserSettles
  \/ UpdateProfileSettles
  \/ ProfileSetSettles
  \/ signInUser
  \/ SignInSettles
  \/ LastLoginSettles
  \/ signOutUser
  \/ SignOutSettles

AdminInit ==
  /\ authUser = <<>>
  /\ authQueue = << <<>> >>
  /\ currentUser = <<>>
  /\ screen = "loading"
  /\ listeners = 0
  /\ allReservations = <<>>
  /\ stats = <<>>
  /\ filteredReservations = <<>>
  /\ modalDisplay = "none"
  /\ modalBody = <<>>
  /\ adminPending = <<>>
  /\ alertText = ""
  /\ filterStatus = "all"
  /\ filterDate = <<>>
  /\ searchInput = <<>>

\* the reservation page alone, in every browser, with every sample input
SpecIntakeInit == IntakeInit /\ AdminInit /\ SvcInit

SpecIntake == SpecIntakeInit /\ [][IntakeNext]_vars

\* the reservation workflow: visitors submitting (from Kolkata browsers),
\* the store, one Admin Console and other operators' sessions
Init ==
  /\ StoreInit
  /\ PageInit
  /\ AdminInit
  /\ SvcInit
  /\ variant = "message"
  /\ firebaseState = "ready"
  /\ nowUtc = 4200
  /\ tzOffset = 330

Next ==
  \/ VisitorSubmission
  \/ handleLogin
  \/ AuthStateChanged
  \/ SnapshotCallback
  \/ RowClicked
  \/ CloseModal
  \/ ModalButtonClicked
  \/ AdminWriteCommits
  \/ AdminWriteRejects
  \/ OtherSessionWrite

Spec == Init /\ [][Next]_vars

\* the Notification Trigger, with visitors submitting and operators
\* changing and deleting the documents meanwhile
SpecTrigger == Init /\ [][TriggerNext]_vars

\* the Admin Console's session: operators signing in and out while the
\* collection changes
SessionNext ==
  \/ VisitorSubmission
  \/ OtherSessionWrite
  \/ handleLogin
  \/ handleLogout
  \/ AuthStateChanged
  \/ SnapshotCallback

SpecSession == Init /\ [][SessionNext]_vars

\* an invocation of the Notification Trigger for a creation event, one of
\* whose sends failed, reaches its catch block and the annotation commits
TriggerAnnotation ==
  /\ \E id \in DOMAIN events, error \in SendErrors :
       CommitUpdate(id, ErrorAnnotation(error.message))
  /\ UNCHANGED <<envVars, listenerVars, filterVars, svcVars, pageVars, adminVars, triggerVars>>

\* deletion: the Admin Console and other sessions confirming, cancelling
\* and deleting, from lists and modals that may be stale, while trigger
\* invocations annotate
DeletionNext ==
  \/ Next
  \/ TriggerAnnotation

SpecDeletion == Init /\ [][DeletionNext]_vars

\* the Admin Console's filters
SpecFilters == Init /\ [][FilterNext]_vars

\* the authentication service, one call at a time
SpecAuth == Init /\ [][SvcNext]_vars

SpecList == Init /\ [][ListNext]_vars

SpecAuthState == Init /\ [][AuthStateNext]_vars

(* ------------------------------------------------------------------------ *)
(* Properties of Reservation Intake (specification SpecIntake)               *)
(* ------------------------------------------------------------------------ *)
\* the submit listener runs and every statement before the add call passes
ValidSubmit ==
  /\ SubmitHandler
  /\ ValidationError(FormData(form), firebaseState, nowUtc, tzOffset) = <<>>

\* the documents of a collection value
Ids(coll) == DOMAIN coll

\* C3: a submit whose fields pass validation issues exactly one insert (one
\* add call more in flight, never two at once, nothing stored yet); when
\* the insert commits the collection gains exactly one document, that
\* document has status pending and the fields submitted, every document that
\* was there before is unchanged, and the call is not issued again.
C3_ValidSubmitInsertsOnce ==
  [][ /\ ValidSubmit =>
           /\ addPending' = Append(addPending, FormData(form))
           /\ reservations' = reservations
      /\ Len(addPending') <= 1
      /\ Len(addPending') > Len(addPending) => ValidSubmit
      /\ reservations' # reservations =>
           /\ pcSubmit = "awaiting"
           /\ addPending' = Tail(addPending)
           /\ Ids(reservations) \subseteq Ids(reservations')
           /\ Cardinality(Ids(reservations')) = Cardinality(Ids(reservations)) + 1
           /\ \A id \in Ids(reservations) : reservations'[id] = reservations[id]
           /\ \A id \in Ids(reservations') \ Ids(reservations) :
                /\ reservations'[id].status = "pending"
                /\ \A f \in DOMAIN addPending[1] :
                     reservations'[id][f] = addPending[1][f]
    ]_vars

\* C3 witness: a second valid submission has committed beside the first
C3_Witness ==
  /\ Cardinality(Ids(reservations)) = 2
  /\ \A id \in Ids(reservations) : reservations[id].status = "pending"
  /\ addPending = <<>>

\* the pattern ^[6-9]\d{9}$, as the specification states it
MatchesPhonePattern(s) ==
  /\ Len(s) = 10
  /\ \A i \in 1..Len(s) : s[i] \in Digits
  /\ s[1] \notin {"0", "1", "2", "3", "4", "5"}

\* C4: a submit whose customerPhone does not match ^[6-9]\d{9}$ issues no
\* store call and creates no record; no add in flight and no stored record
\* carries a phone outside the pattern.
C4_BadPhoneRejectedBeforeWrite ==
  [][ /\ (SubmitHandler /\ ~MatchesPhonePattern(Trim(form.customerPhone))) =>
           /\ addPending' = addPending
           /\ reservations' = reservations
           /\ pcSubmit' = "idle"
      /\ \A i \in 1..Len(addPending') :
           MatchesPhonePattern(addPending'[i].customerPhone)
      /\ \A id \in Ids(reservations') :
           MatchesPhonePattern(reservations'[id].customerPhone)
    ]_vars

\* C4 witness: ten digits with a leading 1 were submitted and turned down
\* with nothing written
C4_Witness ==
  /\ form.customerPhone = S("1234567890")
  /\ messageDiv.textContent = "X Please enter a valid 10-digit Indian phone number"
  /\ ~submitDisabled
  /\ reservations = << >>
  /\ addPending = <<>>

\* C5: a submit whose reservationDate is a calendar day before the
\* browser's current local day issues no store call and creates no record,
\* in every time zone; no add in flight carries such a date.
C5_PastDateRejected ==
  [][ /\ ( /\ SubmitHandler
           /\ form.reservationDate # <<>>
           /\ form.reservationDate[1] < LocalDay(nowUtc, tzOffset) ) =>
           /\ addPending' = addPending
           /\ reservations' = reservations
           /\ pcSubmit' = "idle"
      /\ \A i \in 1..Len(addPending') :
           \/ addPending'[i].reservationDate = <<>>
           \/ addPending'[i].reservationDate[1] >= LocalDay(nowUtc, tzOffset)
    ]_vars

\* C5 witness: east of UTC, where the local day is ahead of the UTC day,
\* yesterday's date with a valid phone was turned down by the date check
C5_Witness ==
  /\ tzOffset > 0
  /\ LocalDay(nowUtc, tzOffset) > nowUtc \div 1440
  /\ form.reservationDate = <<LocalDay(nowUtc, tzOffset) - 1>>
  /\ messageDiv.textContent = "X Please select a future date"
  /\ reservations = << >>

\* C19 (as claimed): a submit whose reservationDate is the browser's
\* current local calendar day is not turned down by the date check, in
\* every time zone.
C19_TodayNeverRejectedAsPast ==
  [][ ( /\ SubmitHandler
        /\ form.reservationDate = <<LocalDay(nowUtc, tzOffset)>> ) =>
          messageDiv'.textContent # "X Please select a future date"
    ]_vars

\* C19 (as claimed), where the local day is also the UTC day, so that the
\* date input's min attribute admits today's date
C19_TodayAcceptedWhereUtcDayIsLocalDay ==
  [][ ( /\ SubmitHandler
        /\ LocalDay(nowUtc, tzOffset) = nowUtc \div 1440
        /\ form.reservationDate = <<LocalDay(nowUtc, tzOffset)>> ) =>
          messageDiv'.textContent # "X Please select a future date"
    ]_vars

\* C6 (as claimed): no reservation record with an empty customerName,
\* partySize, reservationDate or reservationTime is ever created.
C6_NoEmptyRequiredFieldStored ==
  \A id \in Ids(reservations) :
    /\ reservations[id].customerName # <<>>
    /\ reservations[id].partySize # ""
    /\ reservations[id].reservationDate # <<>>
    /\ reservations[id].reservationTime # ""

\* a successful submission's result is on display: the success message of
\* the inline-message variant, or the success view of the other
ResultViewShown ==
  \/ messageDiv.className = "form-message form-message-success"
  \/ successUI # "none"

\* C8 (as claimed): while the result of a successful submission is on
\* display the submit control is disabled.
C8_DisabledWhileResultShown == ResultViewShown => submitDisabled

\* C8 (amended): the step in which the insert resolves leaves the control
\* disabled, and while the result is on display the control is re-enabled
\* only by the 3 s timer the inline-message variant set on success, or by
\* the reload of makeAnotherReservation from the success view.
C8_ReenabledOnlyByTimerOrReload ==
  [][ /\ reservations' # reservations => submitDisabled'
      /\ (ResultViewShown /\ submitDisabled /\ ~submitDisabled') =>
           \/ variant = "message" /\ reenableTimer /\ ~reenableTimer'
           \/ variant = "successUI" /\ successUI = "shown" /\ successUI' = "none"
      /\ (submitDisabled /\ ~submitDisabled') =>
           \/ reenableTimer /\ ~reenableTimer'
           \/ successUI = "shown" /\ successUI' = "none"
           \/ consoleError' # <<>> /\ pcSubmit' = "idle"
    ]_vars

\* C8 witness: the insert has resolved, the success message is shown, the
\* timer is pending and the control is still disabled
C8_Witness ==
  /\ variant = "message"
  /\ messageDiv.className = "form-message form-message-success"
  /\ reenableTimer
  /\ submitDisabled
  /\ Cardinality(Ids(reservations)) = 1

\* a submission fails: a statement before the add throws, or the add rejects
SubmitFails ==
  \/ /\ SubmitHandler
     /\ ValidationError(FormData(form), firebaseState, nowUtc, tzOffset) # <<>>
  \/ AddRejects

\* C9: a failed submission ends with the control enabled, the field values
\* as entered, no record created, no add call left in flight, the handler
\* idle, and the message of the error caught when it has one, else the
\* generic fallback.
C9_FailureLeavesFormRetryable ==
  [][ SubmitFails =>
        /\ ~submitDisabled'
        /\ form' = form
        /\ reservations' = reservations
        /\ addPending' = <<>>
        /\ pcSubmit' = "idle"
        /\ consoleError' # <<>>
        /\ messageDiv'.className = "form-message form-message-error"
        /\ messageDiv'.textContent =
             IF consoleError'[1].message # ""
             THEN "X " \o consoleError'[1].message
             ELSE "X An error occurred. Please try again or call us directly."
    ]_vars

\* C9 witness: a write was rejected with a message of its own, it is shown,
\* the control is enabled and the entered values are still in the form
C9_Witness ==
  /\ consoleError = <<[message |-> "Missing or insufficient permissions."]>>
  /\ messageDiv.textContent = "X Missing or insufficient permissions."
  /\ ~submitDisabled
  /\ form.customerPhone = S("9876543210")
  /\ form.customerName = S(" Asha ")
  /\ reservations = << >>

(* ------------------------------------------------------------------------ *)
(* Properties of the reservation workflow (specification Spec)               *)
(* ------------------------------------------------------------------------ *)
\* a write has been committed on document id in this step
Written(id) ==
  /\ id \in Ids(reservations)
  /\ id \in Ids(reservations')
  /\ reservations'[id] # reservations[id]

\* C1 (as claimed): every committed status write is a legal transition: a
\* document written with status confirmed was pending, and one written with
\* status cancelled was pending or confirmed.
C1_StatusWritesLegal ==
  [][ \A id \in Ids(reservations) \cap Ids(reservations') :
        Written(id) =>
          /\ reservations'[id].status = "confirmed" =>
               reservations[id].status = "pending"
          /\ reservations'[id].status = "cancelled" =>
               reservations[id].status \in {"pending", "confirmed"}
    ]_vars

\* C2: every stored reservation's status is pending, confirmed or
\* cancelled, and a document that enters the collection enters it pending.
C2_StatusEnumerated ==
  /\ [](\A id \in Ids(reservations) : reservations[id].status \in Statuses)
  /\ [][ \A id \in Ids(reservations') \ Ids(reservations) :
           reservations'[id].status = "pending" ]_vars

\* C2 witness: the collection holds a record the console has cancelled
\* beside one still pending as inserted
C2_Witness ==
  /\ alertText = "Reservation cancelled successfully!"
  /\ \E id \in Ids(reservations) :
       /\ reservations[id].status = "cancelled"
       /\ \E other \in Ids(reservations) \ {id} :
            /\ reservations[other].status = "pending"
            /\ reservations[other].updatedAt = reservations[other].createdAt

\* the Admin Console's oldest write in flight is updateReservationStatus(id,
\* 'confirmed'), the stored document is pending, and the write commits
ConfirmCommitsOnPending(id) ==
  /\ AdminWriteCommits
  /\ Head(adminPending).op = "update"
  /\ Head(adminPending).id = id
  /\ Head(adminPending).fields.status = "confirmed"
  /\ reservations[id].status = "pending"

\* C7: when updateReservationStatus(id, 'confirmed') commits on a pending
\* document, the document keeps its fields, status becomes confirmed,
\* updatedAt becomes the server time of the write, later than before,
\* createdAt and every other field are unchanged, and so is every other
\* document.
C7_ConfirmChangesStatusAndUpdatedAt ==
  [][ \A id \in Ids(reservations) :
        ConfirmCommitsOnPending(id) =>
          /\ Ids(reservations') = Ids(reservations)
          /\ DOMAIN reservations'[id] = DOMAIN reservations[id]
          /\ reservations'[id].status = "confirmed"
          /\ reservations'[id].updatedAt = serverClock'
          /\ reservations'[id].updatedAt > reservations[id].updatedAt
          /\ reservations'[id].createdAt = reservations[id].createdAt
          /\ \A f \in DOMAIN reservations[id] \ {"status", "updatedAt"} :
               reservations'[id][f] = reservations[id][f]
          /\ \A other \in Ids(reservations) \ {id} :
               reservations'[other] = reservations[other]
    ]_vars

\* C7 witness: a record confirmed through the console beside an untouched
\* one; the confirmed one carries a later updatedAt than createdAt
C7_Witness ==
  /\ alertText = "Reservation confirmed successfully!"
  /\ modalDisplay = "none"
  /\ adminPending = <<>>
  /\ \E id \in Ids(reservations) :
       /\ reservations[id].status = "confirmed"
       /\ reservations[id].updatedAt > reservations[id].createdAt
       /\ \E other \in Ids(reservations) \ {id} :
            /\ reservations[other].status = "pending"
            /\ reservations[other].updatedAt = reservations[other].createdAt

(* ------------------------------------------------------------------------ *)
(* Properties of the Notification Trigger (specification SpecTrigger)        *)
(* ------------------------------------------------------------------------ *)
\* the send calls an invocation has made to an address in a role
SendsTo(inv, role, to) ==
  {i \in 1..Len(inv.sends) : inv.sends[i].role = role /\ inv.sends[i].to = to}

\* C10: an invocation makes exactly one send per staff recipient, exactly
\* one customer send when customerEmail is present and none when it is
\* not, and has reported success exactly when every send it made has
\* completed successfully (it reports nothing else than success or failure,
\* and failure only with a failed send).
C10_OneSendEachAndSuccessIffAllSent ==
  invocation # <<>> =>
    LET inv == invocation[1]
        email == inv.reservation.customerEmail
        present == email # Null /\ email # <<>>
    IN  /\ \A m \in 1..Len(MANAGER_EMAILS) :
             Cardinality(SendsTo(inv, "manager", MANAGER_EMAILS[m])) = 1
        /\ Cardinality({i \in 1..Len(inv.sends) : inv.sends[i].role = "customer"})
             = IF present THEN 1 ELSE 0
        /\ present => Cardinality(SendsTo(inv, "customer", email)) = 1
        /\ Len(inv.sends) = Len(MANAGER_EMAILS) + IF present THEN 1 ELSE 0
        /\ (inv.result = "success") =
             (\A i \in 1..Len(inv.sends) : inv.sends[i].state = "ok")
        /\ inv.result = "failure" =>
             \E i \in 1..Len(inv.sends) : inv.sends[i].state = "failed"
        /\ inv.result \in {"", "success", "failure"}

\* C10 witness: an invocation for a reservation with an address has made
\* its three sends, all have succeeded and it has reported success
C10_Witness ==
  /\ invocation # <<>>
  /\ invocation[1].reservation.customerEmail = S("a@x.in")
  /\ Len(invocation[1].sends) = 3
  /\ \A i \in 1..3 : invocation[1].sends[i].state = "ok"
  /\ invocation[1].result = "success"

\* an invocation's catch block ends in this step: its annotation write has
\* settled and the handler throws
CatchBlockEnds ==
  /\ invocation # <<>>
  /\ invocation[1].phase = "annotating"
  /\ invocation' # <<>>
  /\ invocation'[1].phase = "done"

\* C11: an invocation with a failed send never reports success and, once
\* finished, has signalled failure; the failure that rejected Promise.all
\* takes the handler into its catch block with that failure's message; the
\* catch block ends by signalling failure whether its annotation write was
\* accepted or refused (the document deleted meanwhile), and an accepted
\* annotation sets emailError to that message and emailErrorTimestamp to
\* the write's server time on the originating document and changes nothing
\* else.
C11_FailedSendAnnotatedThenFailureSignalled ==
  /\ [](invocation # <<>> =>
         LET inv == invocation[1]
             failed == \E i \in 1..Len(inv.sends) : inv.sends[i].state = "failed"
         IN  /\ failed => inv.result # "success"
             /\ failed /\ inv.phase = "done" => inv.result = "failure"
             /\ failed => inv.phase \in {"annotating", "done"}
             /\ inv.phase = "annotating" =>
                  /\ failed
                  /\ inv.error \in {e.message : e \in SendErrors})
  /\ [][ CatchBlockEnds =>
           LET inv == invocation[1]
           IN  /\ invocation'[1].result = "failure"
               /\ inv.id \notin Ids(reservations) => reservations' = reservations
               /\ reservations' # reservations =>
                    /\ Ids(reservations') = Ids(reservations)
                    /\ {"emailError", "emailErrorTimestamp"}
                         \subseteq DOMAIN reservations'[inv.id]
                    /\ reservations'[inv.id].emailError = inv.error
                    /\ reservations'[inv.id].emailErrorTimestamp = serverClock'
                    /\ serverClock' > serverClock
                    /\ \A f \in DOMAIN reservations[inv.id]
                           \ {"emailError", "emailErrorTimestamp"} :
                         reservations'[inv.id][f] = reservations[inv.id][f]
                    /\ \A other \in Ids(reservations) \ {inv.id} :
                         reservations'[other] = reservations[other]
    ]_vars

\* C11 witness: the customer's send failed with 'Unauthorized', the
\* invocation has signalled failure and the document carries the annotation
C11_Witness ==
  /\ invocation # <<>>
  /\ invocation[1].phase = "done"
  /\ invocation[1].result = "failure"
  /\ invocation[1].error = "Unauthorized"
  /\ Len(invocation[1].sends) = 3
  /\ invocation[1].sends[3].state = "failed"
  /\ invocation[1].id \in Ids(reservations)
  /\ "emailError" \in DOMAIN reservations[invocation[1].id]
  /\ reservations[invocation[1].id].emailError = "Unauthorized"
  /\ reservations[invocation[1].id].emailErrorTimestamp = serverClock

\* C11 witness of the refused annotation: a send failed, the document was
\* deleted before the catch block's write, and failure was signalled
C11_WitnessDeleted ==
  /\ invocation # <<>>
  /\ invocation[1].result = "failure"
  /\ invocation[1].id \notin Ids(reservations)

\* C12 (as claimed): only the first invocation for a reservation makes
\* sends, so that each recipient is sent its notification once in total.
C12_OnlyFirstInvocationSends ==
  invocation # <<>> =>
    (delivered[invocation[1].id] > 1 => Len(invocation[1].sends) = 0)

\* C12 (amended): every invocation the platform starts for a reservation,
\* the first or a repeated one, whatever earlier invocations sent and
\* whatever the document now holds, makes exactly one send call to each
\* staff recipient and one to the customer when customerEmail is present.
C12_EveryInvocationSendsToEach ==
  [][ \A id \in DOMAIN delivered :
        (id \in DOMAIN delivered' /\ delivered'[id] = delivered[id] + 1) =>
          /\ invocation' # <<>>
          /\ invocation'[1].id = id
          /\ \A m \in 1..Len(MANAGER_EMAILS) :
               Cardinality({i \in SendsTo(invocation'[1], "manager", MANAGER_EMAILS[m]) :
                              invocation'[1].sends[i].state = "inflight"}) = 1
          /\ Cardinality({i \in 1..Len(invocation'[1].sends) :
                            /\ invocation'[1].sends[i].role = "customer"
                            /\ invocation'[1].sends[i].to = events[id].customerEmail})
               = IF Truthy(events[id].customerEmail) THEN 1 ELSE 0
          /\ Len(invocation'[1].sends) =
               Len(MANAGER_EMAILS) + IF Truthy(events[id].customerEmail) THEN 1 ELSE 0
    ]_vars

\* C12 witness: the second invocation for a reservation with an address has
\* made its three sends again and all were accepted
C12_Witness ==
  /\ invocation # <<>>
  /\ delivered[invocation[1].id] = 2
  /\ Len(invocation[1].sends) = 3
  /\ \A i \in 1..3 : invocation[1].sends[i].state = "ok"
  /\ invocation[1].result = "success"

\* C20 (as claimed): every write that changes an existing reservation
\* document sets its updatedAt to the server time of that write and leaves
\* its createdAt as it was.
C20_EveryMutationRefreshesUpdatedAt ==
  [][ \A id \in Ids(reservations) :
        Written(id) =>
          /\ reservations'[id].updatedAt = serverClock'
          /\ reservations'[id].createdAt = reservations[id].createdAt
    ]_vars

(* ------------------------------------------------------------------------ *)
(* Properties of the authentication service (specification SpecAuth)         *)
(* ------------------------------------------------------------------------ *)
\* C13: a call of signUpUser, signInUser, signOutUser, resetPassword or
\* getUserData ends only by its promise resolving, never rejecting, with an
\* object whose success field is true or false; when it is false the object
\* carries a non-empty error sentence, and it is false whenever an awaited
\* provider or database call rejected.
C13_ServiceCallsResolveUniformly ==
  /\ [](outcome # <<>> =>
         LET o == outcome[1]
         IN  o.fn \in {"signUpUser", "signInUser", "signOutUser",
                       "resetPassword", "getUserData"} =>
               /\ o.settled = "resolved"
               /\ "success" \in DOMAIN o.value
               /\ o.value.success \in BOOLEAN
               /\ o.caught # <<>> => ~o.value.success
               /\ ~o.value.success =>
                    /\ "error" \in DOMAIN o.value
                    /\ o.value.error \notin {"", "undefined", "null"})
  /\ [][ (call # <<>> /\ call' = <<>>) =>
           /\ outcome' # <<>>
           /\ outcome'[1].fn = call[1].fn
           /\ outcome'[1].settled = "resolved" ]_vars

\* C13 witness: signUpUser's profile write was refused by the database, a
\* code the table does not list, and the call resolved with the generic
\* sentence
C13_Witness ==
  /\ outcome # <<>>
  /\ outcome[1].fn = "signUpUser"
  /\ outcome[1].caught = <<[code |-> "permission-denied"]>>
  /\ outcome[1].value = [success |-> FALSE, error |-> GenericErrorMessage]

\* C14: signUpUser called with an email that already has an account ends at
\* its first await with success false; no account, profile document or
\* session is created or changed; and when the provider reports the email
\* as in use the error is the sentence telling the user to sign in instead.
C14_DuplicateSignUpRefusedWithoutWrite ==
  [][ ( /\ At("signUpUser", "createUser")
        /\ call[1].email \in DOMAIN accounts ) =>
          /\ call' = <<>>
          /\ outcome' # <<>>
          /\ outcome'[1].fn = "signUpUser"
          /\ outcome'[1].value.success = FALSE
          /\ accounts' = accounts
          /\ users' = users
          /\ session' = session
          /\ outcome'[1].caught[1].code \in
               {"auth/email-already-in-use", "auth/weak-password"}
                 \cup ProviderFailures
          /\ outcome'[1].caught[1].code = "auth/email-already-in-use" =>
               outcome'[1].value.error =
                 "This email is already registered. Please sign in instead."
    ]_vars

\* C14 witness: a sign-up for an address that has an account and a profile
\* was refused with the sign-in sentence
C14_Witness ==
  /\ outcome # <<>>
  /\ outcome[1].fn = "signUpUser"
  /\ outcome[1].email = "asha@x.in"
  /\ outcome[1].caught = <<[code |-> "auth/email-already-in-use"]>>
  /\ outcome[1].value.error =
       "This email is already registered. Please sign in instead."
  /\ DOMAIN accounts = {"asha@x.in"}
  /\ DOMAIN users = {Uid("asha@x.in")}
  /\ users[Uid("asha@x.in")].role = "customer"

\* C18 (as claimed): a profile enters the collection with role customer and
\* no step changes the role of a profile that has role customer.
C18_RoleStaysCustomer ==
  [][ /\ \A uid \in DOMAIN users' \ DOMAIN users :
           users'[uid].role = "customer"
      /\ \A uid \in DOMAIN users :
           users[uid].role = "customer" =>
             (uid \in DOMAIN users' /\ users'[uid].role = "customer")
    ]_vars

(* ------------------------------------------------------------------------ *)
(* Properties of the filter controls (specification SpecFilters)             *)
(* ------------------------------------------------------------------------ *)
\* the same letter in either case
CasePairs == {{"A", "a"}, {"H", "h"}, {"R", "r"}, {"S", "s"}, {"V", "v"}}

SameLetter(a, b) == a = b \/ {a, b} \in CasePairs

\* text contains query, case ignored
ContainsIgnoringCase(text, query) ==
  \E i \in 0..(Len(text) - Len(query)) :
    \A k \in 1..Len(query) : SameLetter(text[i + k], query[k])

\* a record passes the three filters
PassesFilters(r, status, date, search) ==
  /\ status = "all" \/ r.status = status
  /\ date = <<>> \/ r.reservationDate = date
  /\ ContainsIgnoringCase(r.customerName \o <<" ">> \o r.customerPhone, search)

\* the subsequence of list that passes the three filters
FilteredView(list, status, date, search) ==
  SelectSeq(list, LAMBDA r : PassesFilters(r, status, date, search))

\* applyFilters runs in this step
FiltersApplied ==
  \/ StatusFilterChanged
  \/ DateFilterChanged
  \/ SearchInputChanged
  \/ FilterEventRepeated
  \/ clearFilters

\* C15: when applyFilters has run, filteredReservations is the subsequence
\* of allReservations, in its order, of the records whose status is the
\* status filter (or the filter is 'all'), whose reservationDate is the
\* date filter (or it is unset) and whose name, a space and phone contain
\* the search text, case ignored; allReservations is left as it was; and
\* when it runs again with the controls and the list unchanged the result
\* is the list it produced before.
C15_FilteredIsMatchingSubsequence ==
  [][ /\ FiltersApplied =>
           /\ filteredReservations' =
                FilteredView(allReservations, filterStatus', filterDate',
                             searchInput')
           /\ allReservations' = allReservations
      /\ ( /\ FilterEventRepeated
           /\ filteredReservations =
                FilteredView(allReservations, filterStatus, filterDate,
                             searchInput) ) =>
             filteredReservations' = filteredReservations
    ]_vars

\* C15 witness: of two records listed, the search text 'RAV' under the
\* status filter 'pending' has kept the one named Ravi
C15_Witness ==
  /\ Len(allReservations) = 2
  /\ searchInput = S("RAV")
  /\ filterStatus = "pending"
  /\ Len(filteredReservations) = 1
  /\ filteredReservations[1].customerName = S("Ravi")
  /\ \E i \in 1..2 : allReservations[i].customerName = S("Asha")

(* ------------------------------------------------------------------------ *)
(* Properties of deletion (specification SpecDeletion)                       *)
(* ------------------------------------------------------------------------ *)
\* the identifiers the database has assigned so far
AssignedIds == 1..(nextId - 1)

\* C16: a reservation document that has been removed never exists again:
\* no step (a status update issued from a stale list or modal, another
\* session's write, the trigger's annotation, a new submission) brings back
\* an identifier that was assigned and is gone; and every delete the
\* console issues was issued by a call whose confirm() prompt was accepted.
C16_DeletionTerminalAndConfirmed ==
  /\ [][ \A id \in AssignedIds :
           id \notin Ids(reservations) => id \notin Ids(reservations') ]_vars
  /\ [](\A i \in 1..Len(adminPending) :
           adminPending[i].op = "delete" =>
             adminPending[i].prompt = "accepted")
  /\ [][ (Ids(reservations) \ Ids(reservations') # {} /\ adminPending' # adminPending) =>
           /\ Head(adminPending).op = "delete"
           /\ Head(adminPending).prompt = "accepted"
           /\ Ids(reservations) \ Ids(reservations') = {Head(adminPending).id}
    ]_vars

\* C16 witness: the console deleted a reservation, then from its stale list
\* opened it again and clicked a status button; the update was refused and
\* the document is still gone
C16_Witness ==
  /\ alertText = "Error updating reservation: No document to update"
  /\ allReservations # <<>>
  /\ \E i \in 1..Len(allReservations) :
       allReservations[i].id \notin Ids(reservations)
  /\ adminPending = <<>>

(* ------------------------------------------------------------------------ *)
(* Properties of the console's session (specification SpecSession)           *)
(* ------------------------------------------------------------------------ *)
\* C17: a subscription is opened only by the auth-state callback when it
\* is given a signed-in operator; the page holds a subscription, or any
\* reservation data, only if such a notification has been delivered to it;
\* and the list changes only through a subscription.
C17_SubscriptionOnlyAfterSignIn ==
  /\ [](listeners > 0 => currentUser # <<>>)
  /\ [](allReservations # <<>> => (listeners > 0 /\ currentUser # <<>>))
  /\ [][ listeners' # listeners =>
           /\ authQueue # <<>>
           /\ Head(authQueue) # <<>>
           /\ currentUser' = Head(authQueue)
           /\ listeners' = listeners + 1 ]_vars
  /\ [][ allReservations' # allReservations => listeners > 0 ]_vars

\* C17 witness: the operator signed in, the notification was delivered and
\* the subscription's snapshot filled the list
C17_Witness ==
  /\ screen = "dashboard"
  /\ currentUser = <<OperatorUser>>
  /\ listeners = 1
  /\ Len(allReservations) = 2

(* ------------------------------------------------------------------------ *)
(* Properties of the trigger's annotation (specification SpecTrigger)        *)
(* ------------------------------------------------------------------------ *)
\* the document carries the trigger's annotation
Annotated(doc) == {"emailError", "emailErrorTimestamp"} \subseteq DOMAIN doc

\* C21: a reservation carries emailError and emailErrorTimestamp only
\* together; they appear only in a step in which a trigger invocation for
\* that reservation, one of whose sends has failed, ends its catch block;
\* and once there they stay, emailError non-empty, on the document as long
\* as it exists: a status change leaves them as they are, and so does a
\* later invocation for the same reservation, also one in which every send
\* succeeds; only a later failing invocation rewrites them.
C21_AnnotationOnlyFromFailureAndKept ==
  /\ [](\A id \in Ids(reservations) :
          /\ ("emailError" \in DOMAIN reservations[id])
               = ("emailErrorTimestamp" \in DOMAIN reservations[id])
          /\ Annotated(reservations[id]) => reservations[id].emailError # "")
  /\ [][ \A id \in Ids(reservations) \cap Ids(reservations') :
           /\ (~Annotated(reservations[id]) /\ Annotated(reservations'[id])) =>
                /\ CatchBlockEnds
                /\ invocation[1].id = id
                /\ \E i \in 1..Len(invocation[1].sends) :
                     invocation[1].sends[i].state = "failed"
           /\ Annotated(reservations[id]) =>
                /\ Annotated(reservations'[id])
                /\ \/ /\ reservations'[id].emailError = reservations[id].emailError
                      /\ reservations'[id].emailErrorTimestamp
                           = reservations[id].emailErrorTimestamp
                   \/ /\ CatchBlockEnds
                      /\ invocation[1].id = id
    ]_vars

\* C21 witness: the first invocation for a reservation failed and annotated
\* it; the platform delivered the event again, every send of the second
\* invocation succeeded, and the annotation is still on the document
C21_Witness ==
  /\ invocation # <<>>
  /\ invocation[1].result = "success"
  /\ delivered[invocation[1].id] = 2
  /\ invocation[1].id \in Ids(reservations)
  /\ Annotated(reservations[invocation[1].id])
  /\ reservations[invocation[1].id].emailError = "Forbidden"

(* ------------------------------------------------------------------------ *)
(* Properties of the console's in-memory list (specification SpecList)       *)
(* ------------------------------------------------------------------------ *)
\* C22: allReservations changes only in a step of the subscription's
\* snapshot callback; a click on a modal button (updateReservationStatus,
\* deleteReservation), the settling of its write, fulfilled or rejected, and
\* a run of applyFilters or clearFilters leave allReservations as it was,
\* open no subscription and leave the backing store unread.
C22_ListChangedOnlyBySnapshot ==
  /\ [][ allReservations' # allReservations => SnapshotCallback ]_vars
  /\ [][ (\/ ModalButtonClicked
          \/ AdminWriteCommits
          \/ AdminWriteRejects
          \/ FiltersApplied)
          => /\ allReservations' = allReservations
             /\ listeners' = listeners
    ]_vars

\* C22 witness: a deletion has been committed and announced and a filter is
\* set, while the list still holds the deleted record because no snapshot
\* has been delivered since
C22_Witness ==
  /\ alertText = "Reservation deleted successfully!"
  /\ filterStatus # "all"
  /\ \E i \in 1..Len(allReservations) :
       allReservations[i].id \notin Ids(reservations)

(* ------------------------------------------------------------------------ *)
(* Properties of the snapshot callback (specification Spec)                  *)
(* ------------------------------------------------------------------------ *)
\* the four statistics of a list on calendar day 'day'
StatisticsOn(list, day) ==
  [today |-> Cardinality({i \in 1..Len(list) : list[i].reservationDate = <<day>>}),
   pending |-> Cardinality({i \in 1..Len(list) : list[i].status = "pending"}),
   confirmed |-> Cardinality({i \in 1..Len(list) : list[i].status = "confirmed"}),
   total |-> Len(list)]

\* the documents of the collection, newest first, each with its id
SnapshotDocuments(store) ==
  OrderByCreatedAtDesc(store, DOMAIN store)

\* C23 (as claimed): after a snapshot callback allReservations is the
\* snapshot's documents in createdAt-descending order, whatever the list
\* held before, and the displayed statistics are the number of its records
\* dated today (the operator's calendar day), with status pending, with
\* status confirmed, and its length.
C23_SnapshotReplacesListAndStatistics ==
  [][ SnapshotCallback =>
        /\ allReservations' = SnapshotDocuments(reservations)
        /\ stats' = <<StatisticsOn(allReservations',
                                   LocalDay(nowUtc, tzOffset))>>
    ]_vars

\* the part of C23 that the code does compute: the list is replaced by the
\* snapshot, and the pending, confirmed and total statistics are counted
\* over it; 'today' is the number of records dated the current UTC day
C23_SnapshotReplacesListStatisticsOfUtcDay ==
  [][ SnapshotCallback =>
        /\ allReservations' = SnapshotDocuments(reservations)
        /\ \A i \in 1..Len(allReservations') :
             /\ allReservations'[i].id \in Ids(reservations)
             /\ \A n \in DOMAIN reservations[allReservations'[i].id] :
                  allReservations'[i][n] = reservations[allReservations'[i].id][n]
        /\ \A i, j \in 1..Len(allReservations') :
             i < j => allReservations'[i].createdAt >= allReservations'[j].createdAt
        /\ Len(allReservations') = Cardinality(Ids(reservations))
        /\ stats' = <<StatisticsOn(allReservations', nowUtc \div 1440)>>
    ]_vars

\* a snapshot was delivered after a deletion: the list is shorter than the
\* one before, and the statistics show a record dated the operator's today
\* that the 'today' statistic does not count
C23_Witness ==
  /\ stats # <<>>
  /\ stats[1].total = 1
  /\ stats[1].today = 0
  /\ nextId = 3
  /\ Len(allReservations) = 1
  /\ allReservations[1].reservationDate = <<LocalDay(nowUtc, tzOffset)>>

(* ------------------------------------------------------------------------ *)
(* Partial failures of the auth service (specification SpecAuth)             *)
(* ------------------------------------------------------------------------ *)
\* the running call of fn returns in this step from its catch block
ReturnsFromCatch(fn) ==
  /\ call # <<>>
  /\ call[1].fn = fn
  /\ call' = <<>>
  /\ outcome'[1].caught # <<>>

\* C24: when the set of the users document is refused after the account
\* was created, signUpUser resolves with success false, the account and the
\* session it was signed in with stay as they are, no users document exists
\* for it, and the function has returned: it deletes nothing, signs nobody
\* out and does not try the write again. No step of the service ever
\* removes an account.
C24_ProfileWriteFailureLeavesAccount ==
  /\ [][ (ReturnsFromCatch("signUpUser") /\ call[1].pc = "setProfile") =>
            LET c == call[1]
            IN  /\ outcome'[1].value.success = FALSE
                /\ c.email \in DOMAIN accounts
                /\ accounts' = accounts
                /\ session = <<Uid(c.email)>>
                /\ session' = session
                /\ users' = users
                /\ Uid(c.email) \notin DOMAIN users'
    ]_vars
  /\ [][ \A email \in DOMAIN accounts :
           /\ email \in DOMAIN accounts'
           /\ accounts'[email].uid = accounts[email].uid ]_vars

\* C24 witness: signUpUser has resolved with success false after the
\* database refused the profile; the account exists, its user is signed in
\* and there is no users document
C24_Witness ==
  /\ outcome # <<>>
  /\ outcome[1].fn = "signUpUser"
  /\ outcome[1].value.success = FALSE
  /\ outcome[1].caught = <<[code |-> "permission-denied"]>>
  /\ outcome[1].email \in DOMAIN accounts
  /\ session = <<Uid(outcome[1].email)>>
  /\ Uid(outcome[1].email) \notin DOMAIN users
  /\ call = <<>>

\* C25: when the provider has accepted the credentials and the lastLogin
\* update is refused, the step in which signInUser returns leaves the
\* session the sign-in established: nobody is signed out.
C25_FailedLastLoginKeepsSession ==
  [][ (ReturnsFromCatch("signInUser") /\ call[1].pc = "lastLogin") =>
        /\ session = <<Uid(call[1].email)>>
        /\ session' = session
        /\ accounts' = accounts
    ]_vars

\* C25 witness: the profile exists, its lastLogin update was refused, the
\* call has returned and the user is signed in
C25_Witness ==
  /\ outcome # <<>>
  /\ outcome[1].fn = "signInUser"
  /\ outcome[1].caught = <<[code |-> "unavailable"]>>
  /\ Uid(outcome[1].email) \in DOMAIN users
  /\ session = <<Uid(outcome[1].email)>>
  /\ call = <<>>

\* C30 (as claimed): signInUser returns success false only when it leaves
\* no session it established, and returns success true whenever the
\* provider accepted the credentials.
C30_SignInResultAgreesWithSession ==
  [][ (call # <<>> /\ call[1].fn = "signInUser" /\ call' = <<>>) =>
        /\ call[1].pc = "lastLogin" => outcome'[1].value.success = TRUE
        /\ outcome'[1].value.success = FALSE =>
             ~(call[1].pc = "lastLogin" /\ session' = <<Uid(call[1].email)>>)
    ]_vars

\* the case C30 leaves out: an account whose sign-up lost its profile write
\* signs in, the provider accepts, the lastLogin update finds no document,
\* and signInUser resolves with success false and the generic sentence
\* while the user is signed in
C30_RefusedWhileSignedIn ==
  /\ outcome # <<>>
  /\ outcome[1].fn = "signInUser"
  /\ outcome[1].value = [success |-> FALSE, error |-> GenericErrorMessage]
  /\ outcome[1].caught = <<[code |-> "not-found"]>>
  /\ session = <<Uid(outcome[1].email)>>
  /\ call = <<>>

(* ------------------------------------------------------------------------ *)
(* The rendered list and the filter controls (specification SpecFilters)     *)
(* ------------------------------------------------------------------------ *)
\* renderReservations runs in this step: at the end of the snapshot
\* callback and at the end of applyFilters
ListRendered == SnapshotCallback \/ FiltersApplied

\* C27 (as claimed): whenever the list is rendered, filteredReservations is
\* allReservations restricted by the values the status, date and search
\* controls then have, also when the rendering is that of a snapshot
\* arriving while a filter is set.
C27_RenderedListMatchesControls ==
  [][ ListRendered =>
        filteredReservations' =
          FilteredView(allReservations', filterStatus', filterDate',
                       searchInput')
    ]_vars

\* the case C27 leaves out: the status control shows 'confirmed', a
\* snapshot has arrived, and the rendered list holds a pending record
C27_UnfilteredUnderFilter ==
  /\ filterStatus = "confirmed"
  /\ filteredReservations = allReservations
  /\ \E i \in 1..Len(filteredReservations) :
       filteredReservations[i].status = "pending"

(* ------------------------------------------------------------------------ *)
(* The number of subscriptions (specification SpecSession)                   *)
(* ------------------------------------------------------------------------ *)
\* C29 (as claimed): once every auth-state notification has been
\* delivered, the page has one live reservations subscription while an
\* operator is signed in and none otherwise; at no time are there two.
C29_OneSubscriptionWhileSignedIn ==
  /\ [](authQueue = <<>> => listeners = (IF authUser # <<>> THEN 1 ELSE 0))
  /\ [](listeners <= 1)

\* the cases C29 leaves out: the operator has signed out, the login screen
\* is shown and the subscription is still live; after a second sign-in two
\* subscriptions run side by side
C29_SubscriptionOutlivesSession ==
  /\ authQueue = <<>>
  /\ authUser = <<>>
  /\ screen = "login"
  /\ listeners = 1

C29_TwoSubscriptions ==
  /\ authQueue = <<>>
  /\ authUser # <<>>
  /\ screen = "dashboard"
  /\ listeners = 2

(* ------------------------------------------------------------------------ *)
(* The auth-state callback (specification SpecAuthState)                     *)
(* ------------------------------------------------------------------------ *)
\* the fields signUpUser gives every profile document
ProfileFieldNames ==
  {"uid", "email", "displayName", "createdAt", "role", "reservations",
   "preferences"}

\* C26 (as claimed): every callback with isAuthenticated true carries the
\* provider's uid, email and displayName together with the fields of the
\* user's profile document (role, preferences, ...), also the callback
\* caused by the account creation inside signUpUser; every callback for a
\* signed-out state is exactly {isAuthenticated: false, user: null}.
C26_CallbackCarriesProfile ==
  [][ /\ ProfileReadSettles =>
           /\ lastCallback'[1].isAuthenticated = TRUE
           /\ ProfileFieldNames \subseteq DOMAIN lastCallback'[1].user
           /\ lastCallback'[1].user.role \in {"customer", "admin"}
      /\ (AuthListenerInvoked /\ Head(notifications) = <<>>) =>
           lastCallback' = <<SignedOutState>>
    ]_vars

\* the case C26 leaves out: signUpUser is still running (the profile has
\* not been written), the listener was notified of the new account, its
\* getUserData found no document, and the callback was given a user of
\* uid, email and displayName alone
C26_CallbackDuringSignUp ==
  /\ call # <<>>
  /\ call[1].fn = "signUpUser"
  /\ lastCallback # <<>>
  /\ lastCallback[1].isAuthenticated
  /\ lastCallback[1].user.uid = Uid(call[1].email)
  /\ DOMAIN lastCallback[1].user = {"uid", "email", "displayName"}

\* C28 (as claimed): once every auth-state change has been delivered and
\* no listener invocation is waiting for its profile read, the latest
\* callback describes the current session: isAuthenticated exactly when a
\* user is signed in, and then with that user's uid.
C28_LastCallbackDescribesSession ==
  [](( /\ subscribed
       /\ notifications = <<>>
       /\ reads = <<>>
       /\ lastCallback # <<>> ) =>
       /\ lastCallback[1].isAuthenticated = (session # <<>>)
       /\ lastCallback[1].isAuthenticated =>
            lastCallback[1].user.uid = session[1])

\* the case C28 leaves out: sign-in, then sign-out before the listener's
\* profile read has settled: the signed-out callback came first, nothing
\* is left to deliver, nobody is signed in and the latest callback says
\* isAuthenticated true
C28_SignedOutButLastCallbackSignedIn ==
  /\ subscribed
  /\ notifications = <<>>
  /\ reads = <<>>
  /\ session = <<>>
  /\ outcome # <<>>
  /\ outcome[1].fn = "signOutUser"
  /\ outcome[1].value.success = TRUE
  /\ lastCallback # <<>>
  /\ lastCallback[1].isAuthenticated

====
